---- MODULE Spec2Model ----
(***************************************************************************)
(* Model of the model acquisition and engine lifecycle code of cv-parser:  *)
(*   - OllamaService.pullModel (retry loop, stream decode, stall race,     *)
(*     cleanup and backoff),                                               *)
(*   - the progress callbacks of AppComponent.pullOllamaModel and          *)
(*     AppComponent.onDownloadModel,                                       *)
(*   - the cancel handlers of AppComponent,                                *)
(*   - download handlers of both AppComponents whose calls overlap,        *)
(*   - LocalExtractionService.initialize / extractData and the WebLLM      *)
(*     engines they create, reload and unload,                             *)
(*   - the POST /api/model-metadata/refresh handler of the backend server  *)
(*     and the scheduled job that fetches the same metadata,               *)
(*   - the two-click Delete handlers of both AppComponents,                *)
(*   - EmbeddingService.initModel / getEmbedding,                          *)
(*   - ModelRegistryService: constructor, setProvider, setOpenAIKey,       *)
(*     setChatModel, setEmbeddingModel, refreshModels and                  *)
(*     refreshOpenAIMetadata.                                              *)
(* Times are in milliseconds, as in the source.                            *)
(***************************************************************************)
EXTENDS Integers, Sequences, FiniteSets, TLC

VARIABLES
    pc,               \* where the pullModel call is suspended
    caller,           \* which AppComponent handler issued the call
    attempt,          \* loop variable of pullModel
    wire,             \* text of the response body not yet read
    now,              \* Date.now()
    startTime,        \* pullOllamaModel: startTime
    lastProgressTime, \* pullModel: lastProgressTime
    abortController,  \* the AbortController field of the calling handler
    signalAborted,    \* signal.aborted of the controller handed to pullModel
    layers,           \* pullOllamaModel: layers (digest -> {completed,total})
    digestProgress,   \* onDownloadModel: digestProgress (digest -> completed)
    modelName,        \* the model name the calling handler pulls
    pullProgress,     \* the progress field the calling handler writes
    isPulling,        \* the isPulling field the calling handler writes
    resetPending,     \* onDownloadModel: the 2 s timer of its finally block
    outcome,          \* what the calling handler reported at the end
    thrown,           \* the Error pullModel threw to its caller, if any
    \* ---- observation (history) variables, not program state ----
    attemptsOpened,   \* number of POST /pull requests issued
    cleanupCalls,     \* number of DELETE /delete requests issued
    backoffWaited,    \* total time spent in the backoff setTimeout
    lastReason,       \* message of the error the catch block is handling
    readDelays,       \* the delays the network may add to one read
    lastRecordAt,     \* time the stream opened or the last line was decoded
    errInStream,      \* the current stream has carried an error record
    afterError,       \* callbacks made for records after an error record
    attemptLayers,    \* the layers a map created at this attempt would hold
    lostRecords,      \* records read to their end that JSON.parse never got whole
    lastCleanupOk,    \* what the latest cleanup deleteModel returned (history)
    cancelAt,         \* counters at the moment of the user's cancel
    refLayers,        \* the layer table of the reference aggregator
    lastEv,           \* the last progress event given to the callback
    monotone,         \* every layer's completed has been non-decreasing
    \* ---- overlapping downloads (the handlers of both AppComponents) ----
    inFlight,                    \* the pullModel calls that have not ended
    nextController,              \* number of AbortControllers created so far
    webAbortController,          \* frontend/web AppComponent.abortController
    chatPullAbortController,     \* cv-parser AppComponent fields
    embeddingPullAbortController,
    isPullingChat,
    isPullingEmbedding,
    abortedControllers,          \* controllers on which abort() was called
    chatPullProgress,            \* cv-parser AppComponent fields
    embeddingPullProgress,
    webPullProgress,             \* frontend/web AppComponent.embeddingPullProgress
    webResetTimers,              \* frontend/web: the 2 s timers of onDownloadModel
    \* ---- LocalExtractionService and the WebLLM engines it creates ----
    engine,           \* this.engine: an engine object, or Null
    currentModelId,   \* this.currentModelId: a model id, or "null"
    isLoading,        \* this.isLoading
    provider,         \* modelRegistry.selectedProviderSubject.value
    engines,          \* the engine objects CreateMLCEngine has returned
    calls,            \* the initialize / extractData calls, by caller
    callers,          \* who may call: one caller calls one at a time
    callsStarted,     \* number of top-level calls made so far
    \* ---- POST /api/model-metadata/refresh of the backend server ----
    lastRefreshTime,  \* lastRefreshTime: a time, or Null
    serverNow,        \* Date.now() of the server
    requests,         \* the refresh requests being handled
    refreshStarts,    \* the calls of fetchAndUpdateModelMetadata: when, by whom
    cronJob,          \* the 3 AM job of the day: waiting, fetching or done
    \* ---- the two-click delete of both AppComponents ----
    uiNow,            \* the time of the browser
    confirmingDelete, \* confirmingChatDelete / confirmingEmbeddingDelete, by flag
    deleteTimeout,    \* chatDeleteTimeout / embeddingDeleteTimeout: when it fires
    selected,         \* selectedChatModelId / selectedEmbeddingModelId of the
                      \* cv-parser AppComponent, selectedChatModel /
                      \* selectedEmbeddingModel of the frontend/web one
    deleting,         \* cv-parser: the delete a handler is busy with, by flag
    webDeletes,       \* frontend/web: the deleteModel calls not yet resolved
    clicksMade,       \* number of clicks on a Delete button so far
    expect,           \* two-click rule: time of the open first click, by flag
    armedFor,         \* the control and model of the click that set the flag
    lastClick,        \* the last click: what it did, what the rule asks
    lastDelete,       \* the last DELETE request: its model, and who armed it
    \* ---- EmbeddingService ----
    pipe,                 \* this.pipe: the model its pipeline was loaded for
    embeddingModelId,     \* EmbeddingService.currentModelId
    embeddingIsLoading,   \* EmbeddingService.isLoading
    embeddingCall,        \* the initModel / getEmbedding call being made
    embeddingCalls,       \* number of calls made so far
    \* ---- ModelRegistryService ----
    chatModels,           \* chatModelsSubject.value
    embeddingModels,      \* embeddingModelsSubject.value
    selectedChatModel,    \* selectedChatModelSubject.value
    selectedEmbeddingModel, \* selectedEmbeddingModelSubject.value
    refreshRuns,          \* the refreshModels runs, in the order they started
    openAIKey,            \* openAIKeySubject.value
    openAIMetadataCall    \* the refreshOpenAIMetadata call being made

vars == << pc, caller, attempt, wire, now, startTime, lastProgressTime,
           abortController, signalAborted, layers, digestProgress, modelName,
           pullProgress, isPulling, resetPending, outcome, thrown, attemptsOpened, cleanupCalls,
           backoffWaited, lastReason, lastRecordAt, errInStream, afterError,
           attemptLayers, lostRecords, lastCleanupOk,
           cancelAt, readDelays, refLayers, lastEv, monotone,
           inFlight, nextController, webAbortController, chatPullAbortController,
           embeddingPullAbortController, isPullingChat, isPullingEmbedding,
           abortedControllers, chatPullProgress, embeddingPullProgress,
           webPullProgress, webResetTimers, engine, currentModelId, isLoading, provider,
           engines, calls, callers, callsStarted, lastRefreshTime, serverNow,
           requests, refreshStarts, cronJob,
           uiNow, confirmingDelete, deleteTimeout, selected, deleting,
           webDeletes, clicksMade, expect, armedFor, lastClick, lastDelete,
           pipe, embeddingModelId, embeddingIsLoading, embeddingCall, embeddingCalls,
           chatModels, embeddingModels, selectedChatModel, selectedEmbeddingModel,
           refreshRuns, openAIKey, openAIMetadataCall >>

pullVars == << pc, attempt, wire, now, lastProgressTime, thrown,
               attemptsOpened, cleanupCalls, backoffWaited, lastReason,
               lastRecordAt, errInStream, afterError, attemptLayers,
               lostRecords, lastCleanupOk >>

cbVars == << layers, digestProgress, pullProgress >>

uiVars == << caller, modelName, startTime, abortController, signalAborted, isPulling,
             resetPending, outcome, cancelAt, readDelays >>

aggVars == << refLayers, lastEv, monotone >>

(* the progress fields of the two AppComponents *)
progressVars == << chatPullProgress, embeddingPullProgress, webPullProgress,
                  webResetTimers >>

dlVars == << inFlight, nextController, webAbortController, chatPullAbortController,
            embeddingPullAbortController, isPullingChat, isPullingEmbedding,
            abortedControllers, progressVars >>

engVars == << engine, currentModelId, isLoading, provider, engines, calls,
             callers, callsStarted >>

rfVars == << lastRefreshTime, serverNow, requests, refreshStarts, cronJob >>

delVars == << uiNow, confirmingDelete, deleteTimeout, deleting, webDeletes,
             clicksMade, expect, armedFor, lastClick, lastDelete >>

embVars == << pipe, embeddingModelId, embeddingIsLoading, embeddingCall,
             embeddingCalls >>

(* the subjects of the registry, its runs, and the fields of the          *)
(* components that follow selectedChatModel$ and selectedEmbeddingModel$   *)
regLists == << chatModels, embeddingModels, selectedChatModel,
              selectedEmbeddingModel, refreshRuns, selected >>

regVars == << regLists, openAIKey, openAIMetadataCall >>

moreVars == << delVars, embVars, regVars >>

extVars == << dlVars, engVars, rfVars, moreVars >>

(* extVars without the subjects and runs of the registry *)
extOther == << dlVars, engVars, rfVars, delVars, embVars, openAIKey,
              openAIMetadataCall >>

(* the variables of the single-download model *)
pullModelVars == << pullVars, cbVars, uiVars, aggVars >>

-----------------------------------------------------------------------------
(* Program constants *)

(* a retry limit that is one too large *)
MaxRetriesOffByOne == 3 + 1

MAX_RETRIES == 3

STALL_TIMEOUT == 30000

(* Bounds of the model *)

MaxRecs == 2

MaxChunk == 3

-----------------------------------------------------------------------------
(* Small helpers *)

Min(a, b) == IF a < b THEN a ELSE b

RECURSIVE Pow(_, _)
Pow(b, e) == IF e = 0 THEN 1 ELSE b * Pow(b, e - 1)

NoError == [name |-> "", message |-> <<>>]

(* the null of a field that holds an object or null *)
Null == 0

(* Date.now() when the server starts *)
ServerStart == 1000

(* the connections on which refresh requests arrive *)
MaxRequests == 2

NoRequest == [pc |-> "idle", now |-> 0, status |-> 0]

(* the model ids the handlers are called with *)
ModelIds == {"m1", "m2"}

(* the time at which the page is loaded *)
UiStart == 1000

(* the confirmation flags: confirmingChatDelete and                        *)
(* confirmingEmbeddingDelete of the cv-parser AppComponent, and the one    *)
(* confirmingEmbeddingDelete of the frontend/web AppComponent              *)
Flags == {"chat", "embedding", "web"}

(* the controls with a Delete button: two of each application *)
Controls == {"chat", "embedding", "webChat", "webEmbedding"}

(* the flag a click on the Delete button of control c tests *)
FlagOf(c) == IF c \in {"webChat", "webEmbedding"} THEN "web" ELSE c

(* the type of model control c selects *)
TypeOf(c) == IF c \in {"chat", "webChat"} THEN "chat" ELSE "embedding"

NoDeletion == [pc |-> "idle", due |-> 0, model |-> "none", run |-> 0]

NoClick == [flag |-> "none", issued |-> FALSE, wanted |-> "none"]

NoArming == [control |-> "none", model |-> "none"]

NoDelete == [control |-> "none", model |-> "none",
             armedControl |-> "none", armedModel |-> "none"]

NoEmbeddingCall == [kind |-> "none", pc |-> "done", modelId |-> "null",
                    result |-> "none", browser |-> FALSE, early |-> FALSE]

Has(r, f) == f \in DOMAIN r

(* !s for a field that holds a string or null: null and '' are falsy *)
Falsy(s) == s \in {"null", ""}

(* ModelConfig objects: id, type, provider *)
ModelConfig(id, type, p) == [id |-> id, type |-> type, provider |-> p]

(* { ...config, isInstalled: inst } *)
WithInstalled(config, inst) ==
    [id |-> config.id, type |-> config.type, provider |-> config.provider,
     isInstalled |-> inst]

browserChatModels ==
    << ModelConfig("Phi-3-mini-4k-instruct-q4f16_1-MLC", "chat", "browser"),
       ModelConfig("Llama-3-8B-Instruct-q4f32_1-MLC", "chat", "browser") >>

browserEmbeddingModels ==
    << ModelConfig("Xenova/all-MiniLM-L6-v2", "embedding", "browser"),
       ModelConfig("Xenova/gte-small", "embedding", "browser") >>

(* the record of a caller that has no call of LocalExtractionService going *)
NoCall == [kind |-> "none", pc |-> "done", modelId |-> "null", retryCount |-> 0,
           target |-> Null, log |-> <<>>, waited |-> 0, result |-> "none",
           browser |-> FALSE,
           start |-> [engine |-> Null, model |-> "none", currentModelId |-> "null",
                      created |-> 0, priorThrew |-> FALSE]]

RECURSIVE SumOver(_, _)
SumOver(f, S) ==
    IF S = {} THEN 0
    ELSE LET k == CHOOSE x \in S : TRUE IN f[k] + SumOver(f, S \ {k})

EmptyMap == [k \in {} |-> 0]

Upsert(m, k, v) == [x \in DOMAIN m \cup {k} |-> IF x = k THEN v ELSE m[x]]

-----------------------------------------------------------------------------
(* The download wire protocol: newline-delimited JSON records.  The text   *)
(* is a sequence of tokens; a record is written as two tokens (its two     *)
(* halves) so that a chunk boundary can fall inside a line.                *)

NL == [t |-> "nl"]

Half(r, i) == [t |-> "json", half |-> i, rec |-> r]

Encode(r) == << Half(r, 1), Half(r, 2), NL >>

RecPulling == [status |-> "pulling", digest |-> "L1", completed |-> 50, total |-> 100]

RecSuccess == [status |-> "success"]

RecError == [error |-> "file does not exist"]

LineTexts == { Encode(RecPulling), Encode(RecSuccess), Encode(RecError) }

RECURSIVE WiresOfLen(_)
WiresOfLen(n) ==
    IF n = 0 THEN { <<>> }
    ELSE { l \o w : l \in LineTexts, w \in WiresOfLen(n - 1) }

Wires == UNION { WiresOfLen(n) : n \in 0..MaxRecs }

(* chunk.split('\n').filter(line => line.trim() !== '') *)
RECURSIVE SplitLines(_, _)
SplitLines(chunk, cur) ==
    IF chunk = <<>> THEN (IF cur = <<>> THEN <<>> ELSE << cur >>)
    ELSE IF Head(chunk) = NL
         THEN (IF cur = <<>> THEN <<>> ELSE << cur >>) \o SplitLines(Tail(chunk), <<>>)
         ELSE SplitLines(Tail(chunk), Append(cur, Head(chunk)))

(* JSON.parse(line) succeeds exactly on the complete text of one record *)
Parses(line) ==
    /\ Len(line) = 2
    /\ line[1].t = "json" /\ line[2].t = "json"
    /\ line[1].half = 1 /\ line[2].half = 2
    /\ line[1].rec = line[2].rec

Parsed(line) == line[1].rec

(* the records whose last byte lies in this chunk *)
RecordsEnded(chunk) ==
    Cardinality({ i \in 1..Len(chunk) : chunk[i].t = "json" /\ chunk[i].half = 2 })

(* the lines of one chunk that JSON.parse accepts *)
NumParsed(lines) == Cardinality({ i \in 1..Len(lines) : Parses(lines[i]) })

(* json.error is truthy *)
IsErrorRecord(json) == Has(json, "error") /\ json.error # ""

(* the value undefined, where a status text is expected *)
Undefined == "undefined"

(* the arguments pullModel gives the callback: (json.status,               *)
(* json.completed || 0, json.total || 0); the digest is not passed on      *)
CallbackArgs(json) ==
    [ status    |-> IF Has(json, "status") THEN json.status ELSE Undefined,
      completed |-> IF Has(json, "completed") THEN json.completed ELSE 0,
      total     |-> IF Has(json, "total") THEN json.total ELSE 0,
      digest    |-> "" ]

-----------------------------------------------------------------------------
(* The progress callbacks.  An event is [status, completed, total, digest]; *)
(* digest "" stands for an absent (falsy) digest.                           *)

(* Math.round((num / den) * 100) for num >= 0, den > 0 and 200 * num      *)
(* below 2^30.  The quotient and the product are doubles, each rounded to  *)
(* 53 significant bits.  Where 100 * num / den is not exactly k + 1/2 the  *)
(* result is that of the exact fraction.  Where it is, let n = 2k + 1 and  *)
(* 2^L <= n < 2^(L + 1).  With n / 25 below 2^(L - 4) the error of the     *)
(* quotient is too small to move the product off k + 1/2.  Otherwise the   *)
(* quotient is a multiple of u = 2^(L - 59); it lies r / 25 of u below     *)
(* n / 200 when r = (n * 2^(56 - L)) mod 25 is at most 12, the product is  *)
(* then 4r of u below k + 1/2 and is rounded to a multiple of 64u: to the  *)
(* double below k + 1/2, which Math.round takes to k, exactly for r in     *)
(* 9..12 (29 / 200 gives 14, 1 / 200 gives 1, 803 / 200 gives 401).  The   *)
(* powers of two repeat modulo 25 with period 20.                          *)
RoundPercent(num, den) ==
    LET k == (100 * num) \div den
        n == 2 * k + 1
        L == CHOOSE e \in 0..29 : Pow(2, e) <= n /\ n < 2 * Pow(2, e)
        r == ((n % 25) * Pow(2, (56 - L) % 20)) % 25
    IN IF (200 * num) % (2 * den) = den
       THEN IF 16 * n >= 25 * Pow(2, L) /\ r \in 9..12 THEN k ELSE k + 1
       ELSE (200 * num + den) \div (2 * den)

(* s.includes( w ) *)
Includes(s, w) ==
    \E i \in 1..(Len(s) - Len(w) + 1) : SubSeq(s, i, i + Len(w) - 1) = w

(* status.includes( 'verifying' ) *)
IncludesVerifying(status) == Includes(status, "verifying")

(* status.includes( 'writing' ) *)
IncludesWriting(status) == Includes(status, "writing")

(* AppComponent.pullOllamaModel: layers.set(...) *)
LayersAfter(ls, ev) ==
    IF ev.digest # ""
    THEN Upsert(ls, ev.digest, [completed |-> ev.completed, total |-> ev.total])
    ELSE IF ev.total > 0
         THEN Upsert(ls, "unknown", [completed |-> ev.completed, total |-> ev.total])
         ELSE ls

GlobalCompleted(ls) == SumOver([k \in DOMAIN ls |-> ls[k].completed], DOMAIN ls)

GlobalTotal(ls) == SumOver([k \in DOMAIN ls |-> ls[k].total], DOMAIN ls)

(* AppComponent.pullOllamaModel: percent *)
PullPercent(ls, status) ==
    IF GlobalTotal(ls) > 0
    THEN RoundPercent(GlobalCompleted(ls), GlobalTotal(ls))
    ELSE IF status = "success" \/ IncludesVerifying(status) \/ IncludesWriting(status)
         THEN 100
         ELSE 0

(* AppComponent.pullOllamaModel: the status shown; the formatted text      *)
(* "Pulling <model> - Pulled x MB of y MB (speed)" is one value here, its  *)
(* figures being the completed and total fields of the progress object     *)
PullStatus(ls, status, duration) ==
    IF duration > 0 /\ GlobalCompleted(ls) > 0 /\ GlobalTotal(ls) > 0
    THEN "Pulling - Pulled MB of MB"
    ELSE status

(* AppComponent.pullOllamaModel: the whole progress callback.  With no     *)
(* total known, status.includes( ... ) of a status that is undefined       *)
(* throws a TypeError: the callback ends there, the progress object not    *)
(* written, and pullModel ignores the exception with those of JSON.parse.  *)
PullOllamaCallback(cb, ev, duration) ==
    LET ls == LayersAfter(cb.layers, ev) IN
    IF ev.status = Undefined /\ GlobalTotal(ls) = 0
    THEN [ cb EXCEPT !.layers = ls ]
    ELSE [ cb EXCEPT
             !.layers = ls,
             !.pullProgress = [ status    |-> PullStatus(ls, ev.status, duration),
                                completed |-> GlobalCompleted(ls),
                                total     |-> GlobalTotal(ls),
                                percent   |-> PullPercent(ls, ev.status) ] ]

(* AppComponent.onDownloadModel: digestProgress.set(digest, completed) *)
DigestProgressAfter(dp, ev) ==
    IF ev.digest # "" THEN Upsert(dp, ev.digest, ev.completed) ELSE dp

TotalDownloaded(dp) == SumOver(dp, DOMAIN dp)

(* total * (digestProgress.size || 1) *)
TotalSize(dp, total) ==
    total * (IF Cardinality(DOMAIN dp) = 0 THEN 1 ELSE Cardinality(DOMAIN dp))

(* AppComponent.onDownloadModel: percent *)
DownloadPercent(dp, ev) ==
    LET base == IF TotalSize(dp, ev.total) > 0
                THEN Min(100, RoundPercent(TotalDownloaded(dp), TotalSize(dp, ev.total)))
                ELSE IF ev.total > 0
                     THEN Min(100, RoundPercent(ev.completed, ev.total))
                     ELSE 0
    IN IF ev.status \in {"success", "verifying", "writing manifest"} THEN 100 ELSE base

(* AppComponent.onDownloadModel: the whole progress callback *)
OnDownloadCallback(cb, ev) ==
    LET dp == DigestProgressAfter(cb.digestProgress, ev) IN
    [ cb EXCEPT
        !.digestProgress = dp,
        !.pullProgress = [ status    |-> ev.status,
                           completed |-> TotalDownloaded(dp),
                           total     |-> TotalSize(dp, ev.total),
                           percent   |-> DownloadPercent(dp, ev) ] ]

(* the callback of the handler that issued the call *)
ProgressCallback(who, cb, ev, duration) ==
    IF who = "onDownloadModel"
    THEN OnDownloadCallback(cb, ev)
    ELSE PullOllamaCallback(cb, ev, duration)

-----------------------------------------------------------------------------
(* ModelRegistryService.  refreshModels reads the provider at its first    *)
(* line, awaits what the provider's branch fetches, and then publishes;    *)
(* setProvider, setOpenAIKey and the constructor start it without awaiting *)
(* it, so that several runs can be waiting at once.  A ModelConfig is      *)
(* followed by its id, type, provider and isInstalled fields; the static   *)
(* lists and the OpenAI models have no isInstalled field.                  *)

MaxRefreshRuns == 4

(* how many options of a list are picked from: where the registry and    *)
(* the Delete buttons of the cv-parser AppComponent are followed, where    *)
(* its downloads are, and in the frontend/web AppComponent                 *)
MaxChoices == 2

MaxChoicesDownload == 1

MaxChoicesWeb == 1

Providers == {"browser", "ollama", "openai"}

(* the values of the OpenAI key: none, or a key *)
OpenAIKeys == {"", "sk-1"}

(* m.isInstalled is truthy *)
IsInstalled(m) == Has(m, "isInstalled") /\ m.isInstalled

(* name.includes( 'embed' ) *)
IncludesEmbed(name) == Includes(name, "embed")

(* name.includes( 'bert' ) *)
IncludesBert(name) == Includes(name, "bert")

(* normalize: name.split( ':' )[ 0 ], the text before the first colon *)
Normalize(name) ==
    LET colons == { i \in 1..Len(name) : SubSeq(name, i, i) = ":" }
    IN IF colons = {} THEN name
       ELSE SubSeq(name, 1, (CHOOSE i \in colons : \A j \in colons : i <= j) - 1)

(* what ollamaService.getModels returns for one model, with the families   *)
(* getModelDetails reports for it                                          *)
OllamaModel(name, inst, fams) == [name |-> name, isInstalled |-> inst, families |-> fams]

(* the categorisation of an installed model *)
IsEmbeddingModel(m) ==
    \/ IncludesEmbed(m.name)
    \/ IncludesBert(m.name)
    \/ m.families \cap {"bert", "nomic-bert", "embedding"} # {}

(* the config built for an installed model *)
InstalledConfig(m) ==
    WithInstalled(ModelConfig(m.name, IF IsEmbeddingModel(m) THEN "embedding" ELSE "chat",
                              "ollama"), TRUE)

(* the config built for a model that is not installed *)
UninstalledConfig(m) ==
    WithInstalled(ModelConfig(m.name,
                              IF IncludesEmbed(m.name) \/ IncludesBert(m.name)
                              THEN "embedding" ELSE "chat",
                              "ollama"), FALSE)

(* allOllamaModelsProcessed: a model found among the installed ones, by    *)
(* its name, gets the installed config                                     *)
ProcessedModels(ms) ==
    [ i \in 1..Len(ms) |->
        IF \E j \in 1..Len(ms) : ms[j].isInstalled /\ ms[j].name = ms[i].name
        THEN InstalledConfig(ms[CHOOSE j \in 1..Len(ms) :
                                    ms[j].isInstalled /\ ms[j].name = ms[i].name])
        ELSE UninstalledConfig(ms[i]) ]

(* cands.find( c => normalize( c.id ) === normalize( rec.id ) ) finds one *)
HasNormalized(cands, id) ==
    \E i \in 1..Len(cands) : Normalize(cands[i].id) = Normalize(id)

(* recs.forEach: a recommendation no candidate stands for is pushed, as    *)
(* not installed                                                           *)
RECURSIVE AddRecommended(_, _)
AddRecommended(cands, recs) ==
    IF recs = <<>> THEN cands
    ELSE AddRecommended(IF HasNormalized(cands, Head(recs).id)
                        THEN cands
                        ELSE Append(cands, WithInstalled(Head(recs), FALSE)),
                        Tail(recs))

(* the filter of chatCandidates *)
IsChatCandidate(m) ==
    /\ m.isInstalled \/ m.type = "chat"
    /\ ~(m.type = "embedding" \/ IncludesEmbed(m.id))

(* the filter of embeddingCandidates: every installed model passes *)
IsEmbeddingCandidate(m) == m.isInstalled \/ m.type = "embedding"

(* branch 'ollama': models *)
OllamaChatModels(a) ==
    AddRecommended(SelectSeq(ProcessedModels(a.ollamaModels), IsChatCandidate),
                   a.recommendedChat)

(* branch 'ollama': embeddingModels *)
OllamaEmbeddingModels(a) ==
    AddRecommended(SelectSeq(ProcessedModels(a.ollamaModels), IsEmbeddingCandidate),
                   a.recommendedEmbedding)

(* branch 'openai', with a key: models *)
OpenAIChatModels(a) ==
    [ i \in 1..Len(a.openAIModels) |-> ModelConfig(a.openAIModels[i], "chat", "openai") ]

(* the models and embeddingModels a run for p builds from what the         *)
(* services returned to it                                                 *)
ModelsOf(p, a) ==
    IF p = "ollama" THEN OllamaChatModels(a)
    ELSE IF p = "openai" THEN OpenAIChatModels(a)
    ELSE IF p = "browser" THEN browserChatModels
    ELSE <<>>

EmbeddingModelsOf(p, a) ==
    IF p = "ollama" THEN OllamaEmbeddingModels(a)
    ELSE IF p \in {"browser", "openai"} THEN browserEmbeddingModels
    ELSE <<>>

(* what the services return to one run: ollamaService.getModels with the   *)
(* families of getModelDetails, getRecommendedModels( 'chat' ) and         *)
(* ( 'embedding' ), openAIService.getModels                                *)
Answer(ms, chat, emb, openai) ==
    [ollamaModels |-> ms, recommendedChat |-> chat, recommendedEmbedding |-> emb,
     openAIModels |-> openai]

(* OllamaService.recommendedModels *)
recommendedModels ==
    << "llama3", "llama3:8b", "phi3", "mistral", "gemma:2b", "gemma:7b",
       "neural-chat", "starling-lm", "codellama" >>

(* s.startsWith( w ) *)
StartsWith(s, w) == Len(w) <= Len(s) /\ SubSeq(s, 1, Len(w)) = w

(* getModels when /api/tags has answered with the models installed: they   *)
(* are followed by every recommended name that no installed name starts    *)
(* with, as not installed.  When the server is not reached getModels       *)
(* returns [].                                                             *)
GetModels(installed) ==
    LET Missing(name) == \A j \in 1..Len(installed) : ~StartsWith(installed[j].name, name)
    IN installed \o
       [ i \in 1..Len(SelectSeq(recommendedModels, Missing)) |->
           OllamaModel(SelectSeq(recommendedModels, Missing)[i], FALSE, {}) ]

(* an entry of the lists getRecommendedModels returns *)
Recommended(id, type) == WithInstalled(ModelConfig(id, type, "ollama"), FALSE)

(* getRecommendedModels( 'chat' ) when the library is not reached: the     *)
(* static list                                                             *)
RecommendedChat ==
    [ i \in 1..Len(recommendedModels) |-> Recommended(recommendedModels[i], "chat") ]

(* getRecommendedModels( 'embedding' ) when the library is not reached *)
RecommendedEmbedding ==
    << Recommended("nomic-embed-text", "embedding"),
       Recommended("mxbai-embed-large", "embedding"),
       Recommended("all-minilm", "embedding") >>

(* neither the server nor the library is reached *)
ServerDown == Answer(<<>>, RecommendedChat, RecommendedEmbedding, <<>>)

(* one chat model installed, the library not reached *)
OneInstalled ==
    Answer(GetModels(<< OllamaModel("llama3:latest", TRUE, {"llama"}) >>),
           RecommendedChat, RecommendedEmbedding, <<>>)

(* a chat model and an embedding model installed; the library answers      *)
(* with the names it has found                                             *)
TwoInstalled ==
    Answer(GetModels(<< OllamaModel("mistral", TRUE, {"llama"}),
                        OllamaModel("nomic-embed-text", TRUE, {"nomic-bert"}) >>),
           << Recommended("llama3.1", "chat"), Recommended("mistral", "chat") >>,
           << Recommended("nomic-embed-text", "embedding") >>,
           <<>>)

Answers ==
    { \* the server is not reached, the library has found no name
      Answer(<<>>, <<>>, <<>>, <<>>),
      ServerDown,
      OneInstalled,
      TwoInstalled,
      \* the models of an OpenAI account
      Answer(<<>>, <<>>, <<>>, << "gpt-4o" >>) }

(* the answers the runs get where the handlers of the components are      *)
(* followed                                                                *)
ServerAnswers == { ServerDown, TwoInstalled }

(* the answers a run for provider p can get: a run for 'browser' asks     *)
(* none of these services                                                  *)
AnswersFor(p) ==
    IF p = "browser" THEN { Answer(<<>>, <<>>, <<>>, <<>>) } ELSE Answers

Ids(list) == { list[i].id : i \in 1..Len(list) }

(* models.find( m => m.isInstalled ): the index of the first one, or 0 *)
FirstInstalled(list) ==
    IF \E i \in 1..Len(list) : IsInstalled(list[i])
    THEN CHOOSE i \in 1..Len(list) :
            IsInstalled(list[i]) /\ \A j \in 1..(i - 1) : ~IsInstalled(list[j])
    ELSE 0

(* the chat model selected after models is published by a run for p *)
AutoSelectChat(current, models, p) ==
    IF current \notin Ids(models) /\ Len(models) > 0
    THEN IF p = "ollama" /\ FirstInstalled(models) # 0
         THEN models[FirstInstalled(models)].id
         ELSE models[1].id
    ELSE current

(* branch 'ollama': the first installed embedding model is selected when   *)
(* the current selection is empty or not in the list                       *)
AutoSelectEmbedding(current, list, p) ==
    IF /\ p = "ollama"
       /\ FirstInstalled(list) # 0
       /\ (Falsy(current) \/ current \notin Ids(list))
    THEN list[FirstInstalled(list)].id
    ELSE current

RefreshRun(p, done) == [provider |-> p, done |-> done]

(* the subjects of the registry, its refreshModels runs and the fields of *)
(* the components that its subscribers write, as one value                 *)
Registry ==
    [chatModels |-> chatModels, embeddingModels |-> embeddingModels,
     selectedChatModel |-> selectedChatModel,
     selectedEmbeddingModel |-> selectedEmbeddingModel,
     refreshRuns |-> refreshRuns, selected |-> selected]

SetRegistry(reg) ==
    /\ chatModels' = reg.chatModels
    /\ embeddingModels' = reg.embeddingModels
    /\ selectedChatModel' = reg.selectedChatModel
    /\ selectedEmbeddingModel' = reg.selectedEmbeddingModel
    /\ refreshRuns' = reg.refreshRuns
    /\ selected' = reg.selected

(* setChatModel( m ) on reg, and selectedChatModelSubject.next( m ): the   *)
(* subscribers of both components put m into their field.  The subscriber *)
(* of the cv-parser AppComponent goes on to checkOllamaModelStatus( m,     *)
(* 'chat' ), which writes the same m to the field and, where it calls      *)
(* setChatModel, to the subject.                                           *)
WithChatModel(reg, m) ==
    [reg EXCEPT !.selectedChatModel = m,
                !.selected = [c \in Controls |-> IF TypeOf(c) = "chat" THEN m ELSE @[c]]]

(* setEmbeddingModel( m ) on reg, with the subscribers of both components *)
WithEmbeddingModel(reg, m) ==
    [reg EXCEPT !.selectedEmbeddingModel = m,
                !.selected = [c \in Controls |->
                                 IF TypeOf(c) = "embedding" THEN m ELSE @[c]]]

(* the end of refreshModels for provider p: the embedding model is         *)
(* selected, models is published, the chat model is selected,              *)
(* embeddingModels is published.  A subject is given a value only where    *)
(* the selection changes.                                                  *)
Publish(reg, p, models, embs) ==
    LET e == AutoSelectEmbedding(reg.selectedEmbeddingModel, embs, p)
        r1 == IF e # reg.selectedEmbeddingModel THEN WithEmbeddingModel(reg, e) ELSE reg
        r2 == [r1 EXCEPT !.chatModels = models]
        c == AutoSelectChat(r2.selectedChatModel, models, p)
        r3 == IF c # r2.selectedChatModel THEN WithChatModel(r2, c) ELSE r2
    IN [r3 EXCEPT !.embeddingModels = embs]

(* refreshModels() is called with provider p selected and the key stored:  *)
(* the call runs to its first await.  The branch 'openai' without a key,   *)
(* and a provider the switch has no case for, await nothing and publish    *)
(* within the call.                                                        *)
RefreshModels(reg, p, key) ==
    IF p = "openai" /\ key = ""
    THEN Publish([reg EXCEPT !.refreshRuns = Append(@, RefreshRun(p, TRUE))],
                 p, <<>>, browserEmbeddingModels)
    ELSE IF p \notin {"browser", "ollama", "openai"}
         THEN Publish([reg EXCEPT !.refreshRuns = Append(@, RefreshRun(p, TRUE))],
                      p, <<>>, <<>>)
         ELSE [reg EXCEPT !.refreshRuns = Append(@, RefreshRun(p, FALSE))]

(* the variables no method of the registry changes *)
notRegistry ==
    << engine, currentModelId, isLoading, engines, calls, callers, callsStarted,
       pullModelVars, dlVars, rfVars, delVars, embVars >>

(* setProvider( p ) *)
SetProvider(p) ==
    /\ Len(refreshRuns) < MaxRefreshRuns
    /\ provider' = p
    /\ SetRegistry(RefreshModels(Registry, p, openAIKey))
    /\ UNCHANGED << openAIKey, openAIMetadataCall, notRegistry >>

(* setOpenAIKey( key ) *)
SetOpenAIKey(key) ==
    /\ Len(refreshRuns) < MaxRefreshRuns
    /\ openAIKey' = key
    /\ IF provider = "openai"
       THEN SetRegistry(RefreshModels(Registry, provider, key))
       ELSE SetRegistry(Registry)
    /\ UNCHANGED << provider, openAIMetadataCall, notRegistry >>

(* setChatModel( m ) *)
SetChatModel(m) ==
    /\ SetRegistry(WithChatModel(Registry, m))
    /\ UNCHANGED << provider, openAIKey, openAIMetadataCall, notRegistry >>

(* setEmbeddingModel( m ) *)
SetEmbeddingModel(m) ==
    /\ SetRegistry(WithEmbeddingModel(Registry, m))
    /\ UNCHANGED << provider, openAIKey, openAIMetadataCall, notRegistry >>

(* refreshModels(), called by a component: the change of the Ollama URL,   *)
(* saveOllamaConfig, refreshLibrary                                        *)
RefreshModelsCalled ==
    /\ Len(refreshRuns) < MaxRefreshRuns
    /\ SetRegistry(RefreshModels(Registry, provider, openAIKey))
    /\ UNCHANGED << provider, openAIKey, openAIMetadataCall, notRegistry >>

(* run i of reg publishes the lists it has built from a *)
RunEnds(reg, i, a) ==
    Publish([reg EXCEPT !.refreshRuns[i].done = TRUE],
            reg.refreshRuns[i].provider,
            ModelsOf(reg.refreshRuns[i].provider, a),
            EmbeddingModelsOf(reg.refreshRuns[i].provider, a))

(* the awaits of run i are over, the services having returned a: it        *)
(* publishes the lists it has built                                        *)
RefreshModelsEnds(i, a) ==
    /\ i \in 1..Len(refreshRuns)
    /\ ~refreshRuns[i].done
    /\ SetRegistry(RunEnds(Registry, i, a))
    /\ UNCHANGED << provider, openAIKey, openAIMetadataCall, notRegistry >>

NoMetadataCall == [pc |-> "idle", run |-> 0]

(* refreshOpenAIMetadata() is called: it posts to the refresh endpoint *)
RefreshOpenAIMetadata ==
    /\ openAIMetadataCall.pc = "idle"
    /\ openAIMetadataCall' = [pc |-> "post", run |-> 0]
    /\ UNCHANGED << provider, openAIKey, regLists, notRegistry >>

(* the endpoint has answered: 429 and the other failures are thrown; after *)
(* a success refreshModels is awaited when the provider is 'openai'        *)
MetadataAnswered(ok) ==
    /\ openAIMetadataCall.pc = "post"
    /\ IF ok /\ provider = "openai"
       THEN /\ Len(refreshRuns) < MaxRefreshRuns
            /\ SetRegistry(RefreshModels(Registry, provider, openAIKey))
            /\ openAIMetadataCall' = [pc |-> "refreshModels", run |-> Len(refreshRuns) + 1]
       ELSE /\ SetRegistry(Registry)
            /\ openAIMetadataCall' = NoMetadataCall
    /\ UNCHANGED << provider, openAIKey, notRegistry >>

(* the refreshModels run it awaited is over: refreshOpenAIMetadata returns *)
MetadataRefreshReturns ==
    /\ openAIMetadataCall.pc = "refreshModels"
    /\ refreshRuns[openAIMetadataCall.run].done
    /\ openAIMetadataCall' = NoMetadataCall
    /\ UNCHANGED << provider, openAIKey, regLists, notRegistry >>

(* setChatModel( m ) or setEmbeddingModel( m ) on reg, by the type *)
WithModel(reg, type, m) ==
    IF type = "chat" THEN WithChatModel(reg, m) ELSE WithEmbeddingModel(reg, m)

(* list.find( x => x.id === m ): the index of the first one, or 0 *)
FindById(list, m) ==
    IF \E i \in 1..Len(list) : list[i].id = m
    THEN CHOOSE i \in 1..Len(list) :
            list[i].id = m /\ \A j \in 1..(i - 1) : list[j].id # m
    ELSE 0

(* model.isInstalled !== false *)
NotFalse(model) == IF Has(model, "isInstalled") THEN model.isInstalled ELSE TRUE

(* checkOllamaModelStatus: under 'ollama' the registry is given the model  *)
(* only when it is found in the chat list, or else in the embedding list,  *)
(* and is not marked as not installed                                      *)
SafeToSet(m) ==
    \/ provider # "ollama"
    \/ IF FindById(chatModels, m) # 0
       THEN NotFalse(chatModels[FindById(chatModels, m)])
       ELSE /\ FindById(embeddingModels, m) # 0
            /\ NotFalse(embeddingModels[FindById(embeddingModels, m)])

(* availableChatModels or embeddingModels: the list the control shows *)
ListOf(c) == IF TypeOf(c) = "chat" THEN chatModels ELSE embeddingModels

(* the models that are picked from a list: its first n *)
FirstIds(list, n) == { list[i].id : i \in 1..Min(n, Len(list)) }

(* AppComponent.isModelInstalled( modelId, models ) *)
IsModelInstalled(modelId, models) ==
    /\ FindById(models, modelId) # 0
    /\ NotFalse(models[FindById(models, modelId)])

-----------------------------------------------------------------------------
(* OllamaService.pullModel and the handlers that call it *)

Callers == {"onDownloadModel", "pullOllamaModel"}

(* delays shorter than the stall timeout that a read may take *)
FastNetwork == {0}

SlowNetwork == {20000}

RetryStatus == "Download failed/stalled. Retrying"

(* progressCallback( `Download failed/stalled. Retrying ...`, 0, 0 ): what *)
(* the catch block of pullModel gives the callback                         *)
RetryEvent == [status |-> RetryStatus, completed |-> 0, total |-> 0, digest |-> ""]

(* a backoff that grows linearly instead of doubling *)
BackoffLinear(a) == a * 1000

(* Math.pow(2, attempt) * 1000 *)
BackoffDelay(a) == Pow(2, a) * 1000

(* the loop condition of pullModel *)
LoopContinues(a) == a <= MAX_RETRIES

(* a test that gives up one attempt early *)
IsFinalAttemptEarly(a) == a >= MAX_RETRIES - 1

(* the test of the catch block that ends the retries *)
IsFinalAttempt(a) == a = MAX_RETRIES

(* the Error thrown once the retries are used up *)
ExhaustedError(reason) ==
    [name |-> "Error", message |-> << "Failed to pull model after attempts", reason >>]

CbState == [layers |-> layers, digestProgress |-> digestProgress,
            pullProgress |-> pullProgress]

(* the for (const line of lines) loop: st = [cb, err, after, decoded,     *)
(* fresh]; fresh follows the events as a map created at this attempt would *)
RECURSIVE ProcessLines(_, _, _, _)
ProcessLines(lines, who, st, duration) ==
    IF lines = <<>> THEN st
    ELSE LET line == Head(lines)
             next ==
               IF ~Parses(line) THEN st
               ELSE IF IsErrorRecord(Parsed(line))
                    THEN [st EXCEPT !.decoded = TRUE, !.err = TRUE]
                    ELSE [st EXCEPT
                            !.decoded = TRUE,
                            !.after = IF st.err THEN @ + 1 ELSE @,
                            !.fresh = LayersAfter(@, CallbackArgs(Parsed(line))),
                            !.cb = ProgressCallback(who, st.cb,
                                       CallbackArgs(Parsed(line)), duration)]
         IN ProcessLines(Tail(lines), who, next, duration)

(* the catch block of a failed attempt that is not the last one issues   *)
(* one deleteModel for the partial download                              *)
CleanupsAfterTwice(n) == n + 2

CleanupsAfter(n) == n + 1

(* what the calling handler reports when pullModel throws err *)
CatchOutcome(who, err) ==
    IF who = "onDownloadModel"
    THEN (IF err.name = "AbortError" THEN "Cancelled" ELSE "Failed")
    ELSE (IF err.message = << "Download cancelled by user" >> THEN "Cancelled" ELSE "Failed")

(* the handler's code after pullModel has returned or thrown: after a      *)
(* return both handlers call refreshModels without awaiting it, and        *)
(* pullOllamaModel, called as downloadChatModel calls it, makes the model  *)
(* the active chat model                                                   *)
Finish(who, result) ==
    /\ pc' = "done"
    /\ outcome' = result
    /\ isPulling' = FALSE
    /\ resetPending' = (who = "onDownloadModel")
    /\ abortController' = IF who = "onDownloadModel" THEN "null" ELSE abortController
    /\ IF result = "Succeeded"
       THEN \E reg \in { RefreshModels(Registry, provider, openAIKey) } :
               SetRegistry(IF who = "pullOllamaModel"
                           THEN WithChatModel(reg, modelName)
                           ELSE reg)
       ELSE UNCHANGED regLists

(* the catch block of pullModel, up to its first await *)
Caught(reason, t) ==
    /\ now' = t
    /\ lastReason' = reason
    /\ IF IsFinalAttempt(attempt)
       THEN /\ thrown' = ExhaustedError(reason)
            /\ Finish(caller, CatchOutcome(caller, ExhaustedError(reason)))
            /\ IF caller = "onDownloadModel" /\ ExhaustedError(reason).name = "AbortError"
               THEN pullProgress' = [pullProgress EXCEPT !.status = "Cancelled"]
               ELSE UNCHANGED pullProgress
            /\ UNCHANGED << layers, digestProgress, cleanupCalls >>
       ELSE LET cb == ProgressCallback(caller, CbState, RetryEvent, t - startTime)
            IN /\ layers' = cb.layers
               /\ digestProgress' = cb.digestProgress
               /\ pullProgress' = cb.pullProgress
               /\ cleanupCalls' = CleanupsAfter(cleanupCalls)
               /\ pc' = "cleanup"
               /\ UNCHANGED << thrown, outcome, isPulling, resetPending, abortController,
                               regLists >>
    /\ UNCHANGED << caller, modelName, attempt, wire, startTime, lastProgressTime, signalAborted,
                    attemptsOpened, backoffWaited, lastRecordAt, errInStream,
                    afterError, attemptLayers, lostRecords, lastCleanupOk, cancelAt, readDelays,
                    aggVars, extOther >>

(* the Download button of the chat control of the cv-parser template is   *)
(* shown, and enabled, for pullOllamaModel; the template of frontend/web   *)
(* is not part of the source                                               *)
CanStart(who) ==
    who = "pullOllamaModel"
       => /\ provider = "ollama"
          /\ ~isPulling
          /\ ~IsModelInstalled(selected["chat"], chatModels)
          /\ selected["chat"] # ""

(* the model the handler pulls: this.selectedChatModelId for               *)
(* downloadChatModel, event.id of the chat control for onDownloadModel     *)
ModelNameOf(who) ==
    IF who = "onDownloadModel" THEN selected["webChat"] ELSE selected["chat"]

(* the progress object a handler writes before it calls pullModel *)
StartProgress(who, name) ==
    [status |-> IF who = "onDownloadModel" THEN "Starting..."
                ELSE "Pulling " \o name \o "...",
     completed |-> 0, total |-> 0, percent |-> 0]

(* onDownloadModel, or downloadChatModel with pullOllamaModel, up to the   *)
(* fetch of the first attempt                                              *)
StartDownload(who) ==
    /\ pc = "idle"
    /\ CanStart(who)
    /\ caller' = who
    /\ modelName' = ModelNameOf(who)
    /\ abortController' = "live"
    /\ signalAborted' = FALSE
    /\ startTime' = now
    /\ layers' = EmptyMap
    /\ digestProgress' = EmptyMap
    /\ pullProgress' = StartProgress(who, ModelNameOf(who))
    /\ isPulling' = (who # "onDownloadModel")
    /\ attempt' = 1
    /\ attemptsOpened' = attemptsOpened + 1
    /\ pc' = "fetch"
    /\ attemptLayers' = EmptyMap
    /\ lastProgressTime' = now
    /\ UNCHANGED << wire, now, resetPending, outcome, thrown,
                    cleanupCalls, backoffWaited, lastReason, lastRecordAt,
                    errInStream, afterError, lostRecords, lastCleanupOk, cancelAt, readDelays,
                    aggVars, extVars >>

(* fetch resolves with a response that has a body *)
FetchResolves(w) ==
    /\ pc = "fetch"
    /\ pc' = "read"
    /\ wire' = w
    /\ lastRecordAt' = now
    /\ errInStream' = FALSE
    /\ lostRecords' = 0
    /\ lastCleanupOk' = TRUE
    /\ UNCHANGED << attempt, now, lastProgressTime, thrown, attemptsOpened, cleanupCalls,
                    backoffWaited, lastReason, afterError, attemptLayers, cbVars, uiVars,
                    aggVars, extVars >>

(* fetch resolves with a response without a body *)
FetchNoBody ==
    /\ pc = "fetch"
    /\ Caught("No response body", now)

(* fetch rejects: the connection failed *)
FetchRejects ==
    /\ pc = "fetch"
    /\ Caught("Failed to fetch", now)

(* the initial timer aborts the fetch after STALL_TIMEOUT *)
FetchTimesOut ==
    /\ pc = "fetch"
    /\ Caught("The operation was aborted", now + STALL_TIMEOUT)

(* reader.read() yields a chunk of k tokens, d ms after it was asked for *)
ReadChunk(k, d) ==
    /\ pc = "read"
    /\ k <= Len(wire)
    /\ d < STALL_TIMEOUT
    /\ lostRecords' = lostRecords + RecordsEnded(SubSeq(wire, 1, k))
                          - NumParsed(SplitLines(SubSeq(wire, 1, k), <<>>))
    /\ UNCHANGED lastCleanupOk
    /\ \E st \in { ProcessLines(SplitLines(SubSeq(wire, 1, k), <<>>), caller,
                        [cb |-> CbState, err |-> errInStream, after |-> afterError,
                         decoded |-> FALSE, fresh |-> attemptLayers],
                        (now + d) - startTime) } :
          /\ wire' = SubSeq(wire, k + 1, Len(wire))
          /\ now' = now + d
          /\ lastProgressTime' = now + d
          /\ lastRecordAt' = IF st.decoded THEN now + d ELSE lastRecordAt
          /\ errInStream' = st.err
          /\ afterError' = st.after
          /\ attemptLayers' = st.fresh
          /\ layers' = st.cb.layers
          /\ digestProgress' = st.cb.digestProgress
          /\ pullProgress' = st.cb.pullProgress
    /\ UNCHANGED << pc, attempt, thrown, attemptsOpened, cleanupCalls, backoffWaited,
                    lastReason, uiVars, aggVars, extVars >>

(* reader.read() reports the end of the stream: pullModel returns *)
ReadDone ==
    /\ pc = "read"
    /\ wire = <<>>
    /\ Finish(caller, "Succeeded")
    /\ UNCHANGED << caller, modelName, attempt, wire, now, startTime, lastProgressTime,
                    signalAborted, cbVars, thrown, attemptsOpened, cleanupCalls,
                    backoffWaited, lastReason, lastRecordAt, errInStream,
                    afterError, attemptLayers, lostRecords, lastCleanupOk, cancelAt, readDelays,
                    aggVars, extOther >>

(* reader.read() rejects: the connection broke *)
ReadFails ==
    /\ pc = "read"
    /\ Caught("network error", now)

(* the stall timer wins the race against reader.read() *)
Stall ==
    /\ pc = "read"
    /\ Caught("Download stalled", now + STALL_TIMEOUT)

(* deleteModel returns (true, or false when the request failed); the     *)
(* catch block awaits it and does not look at what it returned          *)
AfterCleanupHangs(ok) == IF ok THEN "backoff" ELSE "cleanupFailed"

AfterCleanup(ok) == "backoff"

(* deleteModel returns (true, or false when the request failed) *)
CleanupDone(ok) ==
    /\ pc = "cleanup"
    /\ pc' = AfterCleanup(ok)
    /\ lastCleanupOk' = ok
    /\ UNCHANGED << attempt, wire, now, lastProgressTime, thrown, attemptsOpened,
                    cleanupCalls, backoffWaited, lastReason, lastRecordAt,
                    errInStream, afterError, attemptLayers, lostRecords, cbVars,
                    uiVars, aggVars, extVars >>

(* the backoff timer fires; the loop goes on to the next attempt, up to   *)
(* its fetch: let lastProgressTime = Date.now()                            *)
BackoffDone ==
    /\ pc = "backoff"
    /\ now' = now + BackoffDelay(attempt)
    /\ backoffWaited' = backoffWaited + BackoffDelay(attempt)
    /\ attempt' = attempt + 1
    /\ attemptLayers' = EmptyMap
    /\ IF LoopContinues(attempt + 1)
       THEN /\ pc' = "fetch"
            /\ attemptsOpened' = attemptsOpened + 1
            /\ lastProgressTime' = now + BackoffDelay(attempt)
            /\ UNCHANGED << outcome, isPulling, resetPending, abortController, regLists >>
       ELSE /\ Finish(caller, "Succeeded")
            /\ UNCHANGED << attemptsOpened, lastProgressTime >>
    /\ UNCHANGED << caller, modelName, wire, startTime, signalAborted, cbVars,
                    thrown, cleanupCalls, lastReason, lastRecordAt, errInStream,
                    afterError, lostRecords, lastCleanupOk, cancelAt, readDelays, aggVars,
                    extOther >>

(* onCancelPull / cancelChatPull / cancelEmbeddingPull; the Cancel button  *)
(* of the cv-parser template is shown while the provider is 'ollama' and   *)
(* isPullingChat                                                           *)
CancelPull ==
    /\ caller = "pullOllamaModel" => (provider = "ollama" /\ isPulling)
    /\ abortController = "live"
    /\ signalAborted' = TRUE
    /\ abortController' = "null"
    /\ cancelAt' = [pc |-> pc, attempts |-> attemptsOpened, cleanups |-> cleanupCalls]
    /\ UNCHANGED << pullVars, cbVars, caller, modelName, startTime, isPulling,
                    resetPending, outcome, readDelays, aggVars, extVars >>

(* onDownloadModel: the timer set in its finally block *)
ProgressReset ==
    /\ resetPending
    /\ resetPending' = FALSE
    /\ pullProgress' = [percent |-> 0, status |-> "", completed |-> 0, total |-> 0]
    /\ UNCHANGED << pullVars, layers, digestProgress, caller, modelName, startTime,
                    abortController, signalAborted, isPulling, outcome, cancelAt,
                    readDelays, aggVars, extVars >>

NoCancel == [pc |-> "none", attempts |-> 0, cleanups |-> 0]

(* the progress object the fields start with and are reset to *)
NoProgress == [status |-> "", completed |-> 0, total |-> 0, percent |-> 0]

NoEvent == [status |-> "", completed |-> 0, total |-> 0, digest |-> ""]

InitProgram ==
    /\ pc = "idle"
    /\ caller = "none"
    /\ attempt = 0
    /\ wire = <<>>
    /\ now = 0
    /\ startTime = 0
    /\ lastProgressTime = 0
    /\ abortController = "null"
    /\ signalAborted = FALSE
    /\ layers = EmptyMap
    /\ digestProgress = EmptyMap
    /\ modelName = ""
    /\ pullProgress = [status |-> "", completed |-> 0, total |-> 0, percent |-> 0]
    /\ isPulling = FALSE
    /\ resetPending = FALSE
    /\ outcome = "none"
    /\ thrown = NoError
    /\ attemptsOpened = 0
    /\ cleanupCalls = 0
    /\ backoffWaited = 0
    /\ lastReason = ""
    /\ lastRecordAt = 0
    /\ errInStream = FALSE
    /\ afterError = 0
    /\ attemptLayers = EmptyMap
    /\ lostRecords = 0
    /\ lastCleanupOk = TRUE
    /\ cancelAt = NoCancel
    /\ refLayers = EmptyMap
    /\ lastEv = NoEvent
    /\ monotone = TRUE
    /\ inFlight = {}
    /\ nextController = 0
    /\ webAbortController = Null
    /\ chatPullAbortController = Null
    /\ embeddingPullAbortController = Null
    /\ isPullingChat = FALSE
    /\ isPullingEmbedding = FALSE
    /\ abortedControllers = {}
    /\ chatPullProgress = NoProgress
    /\ embeddingPullProgress = NoProgress
    /\ webPullProgress = NoProgress
    /\ webResetTimers = 0
    /\ engine = Null
    /\ currentModelId = "null"
    /\ isLoading = FALSE
    /\ engines = <<>>
    /\ calls = [s \in {"c1", "c2"} |-> NoCall]
    /\ callsStarted = 0
    /\ lastRefreshTime = Null
    /\ serverNow = ServerStart
    /\ requests = [r \in 1..MaxRequests |-> NoRequest]
    /\ refreshStarts = <<>>
    /\ cronJob = "waiting"
    /\ uiNow = UiStart
    /\ confirmingDelete = [f \in Flags |-> FALSE]
    /\ deleteTimeout = [f \in Flags |-> Null]
    /\ deleting = [f \in {"chat", "embedding"} |-> NoDeletion]
    /\ webDeletes = <<>>
    /\ clicksMade = 0
    /\ expect = [f \in Flags |-> Null]
    /\ armedFor = [f \in Flags |-> NoArming]
    /\ lastClick = NoClick
    /\ lastDelete = NoDelete
    /\ pipe = "null"
    /\ embeddingModelId = "null"
    /\ embeddingIsLoading = FALSE
    /\ embeddingCall = NoEmbeddingCall
    /\ embeddingCalls = 0
    /\ openAIMetadataCall = NoMetadataCall

(* the field initialisers and the constructor of ModelRegistryService,     *)
(* with what localStorage holds under 'cv-parser-provider' and             *)
(* 'cv-parser-openai-key' ("" for nothing): setProvider( savedProvider )   *)
(* is called before the saved key is taken, and refreshModels after it     *)
ConstructedRegistry(savedProvider, savedKey) ==
    LET fields == [chatModels |-> browserChatModels,
                   embeddingModels |-> browserEmbeddingModels,
                   selectedChatModel |-> browserChatModels[1].id,
                   selectedEmbeddingModel |-> browserEmbeddingModels[1].id,
                   refreshRuns |-> <<>>,
                   selected |-> [c \in Controls |->
                                    IF TypeOf(c) = "chat" THEN browserChatModels[1].id
                                    ELSE browserEmbeddingModels[1].id]]
        p == IF savedProvider # "" THEN savedProvider ELSE "browser"
        reg == RefreshModels(IF savedProvider # ""
                             THEN RefreshModels(fields, savedProvider, "")
                             ELSE fields,
                             p, savedKey)
    IN reg

(* the registry is reg; the components have subscribed *)
RegistryIs(reg) ==
    /\ chatModels = reg.chatModels
    /\ embeddingModels = reg.embeddingModels
    /\ selectedChatModel = reg.selectedChatModel
    /\ selectedEmbeddingModel = reg.selectedEmbeddingModel
    /\ refreshRuns = reg.refreshRuns
    /\ selected = reg.selected

Constructed(savedProvider, savedKey) ==
    /\ provider = (IF savedProvider # "" THEN savedProvider ELSE "browser")
    /\ openAIKey = savedKey
    /\ RegistryIs(ConstructedRegistry(savedProvider, savedKey))

(* the runs of reg from the i-th on that are waiting end in the order they *)
(* started, the services returning a to each                               *)
RECURSIVE RunsEnded(_, _, _)
RunsEnded(reg, i, a) ==
    IF i > Len(reg.refreshRuns) THEN reg
    ELSE RunsEnded(IF reg.refreshRuns[i].done THEN reg ELSE RunEnds(reg, i, a), i + 1, a)

(* the page is loaded with 'ollama' saved as the provider and the runs of  *)
(* the constructor have ended, the server not being reached: the lists     *)
(* hold the recommendations, none installed                                *)
Loaded ==
    /\ provider = "ollama"
    /\ openAIKey = ""
    /\ RegistryIs(RunsEnded(ConstructedRegistry("ollama", ""), 1, ServerDown))

(* a first visit: localStorage is empty *)
Init ==
    /\ InitProgram
    /\ Constructed("", "")
    /\ readDelays = FastNetwork
    /\ callers = {"c1"}

(* a later visit: localStorage may hold a provider and a key *)
InitSaved ==
    /\ InitProgram
    /\ \E savedProvider \in Providers \cup {""}, savedKey \in OpenAIKeys :
          Constructed(savedProvider, savedKey)
    /\ readDelays = FastNetwork
    /\ callers = {"c1"}

(* a later visit with 'ollama' saved as the provider *)
InitOllama ==
    /\ InitProgram
    /\ Constructed("ollama", "")
    /\ readDelays = FastNetwork
    /\ callers = {"c1"}

(* the downloads are followed from the loaded page on *)
InitLoaded ==
    /\ InitProgram
    /\ Loaded
    /\ readDelays = FastNetwork
    /\ callers = {"c1"}

InitSlow ==
    /\ InitProgram
    /\ Loaded
    /\ readDelays = SlowNetwork
    /\ callers = {"c1"}

NextPull ==
    \/ \E who \in Callers : StartDownload(who)
    \/ \E w \in Wires : FetchResolves(w)
    \/ FetchNoBody
    \/ FetchRejects
    \/ FetchTimesOut
    \/ \E k \in 1..MaxChunk, d \in readDelays : ReadChunk(k, d)
    \/ ReadDone
    \/ ReadFails
    \/ Stall
    \/ \E ok \in BOOLEAN : CleanupDone(ok)
    \/ BackoffDone
    \/ CancelPull
    \/ ProgressReset

SpecPull == InitLoaded /\ [][NextPull]_vars

SpecStall == InitSlow /\ [][NextPull]_vars

(* what pullModel awaits: the fetch, a stream read, the stall timer, the   *)
(* cleanup delete, the backoff timer; each of them settles                 *)
PullModelStep ==
    \/ \E w \in Wires : FetchResolves(w)
    \/ FetchNoBody
    \/ FetchRejects
    \/ FetchTimesOut
    \/ \E k \in 1..MaxChunk, d \in readDelays : ReadChunk(k, d)
    \/ ReadDone
    \/ ReadFails
    \/ Stall
    \/ \E ok \in BOOLEAN : CleanupDone(ok)
    \/ BackoffDone

SpecPullFair == InitLoaded /\ [][NextPull]_vars /\ WF_vars(PullModelStep)

-----------------------------------------------------------------------------
(* The progress callbacks driven directly, with any events: the callback   *)
(* is a function of its four arguments and of the map it closes over.      *)

Statuses == {"pulling", "verifying", "verifying sha256 digest", "writing manifest", "success"}

Digests == {"", "L1", "L2"}

Completeds == {0, 50, 100}

Totals == {0, 100}

Events == [status : Statuses, completed : Completeds, total : Totals, digest : Digests]

(* the reference aggregator: every event is upserted, an absent digest     *)
(* under the key "unknown"                                                 *)
RefKey(ev) == IF ev.digest = "" THEN "unknown" ELSE ev.digest

RefUpsert(rl, ev) == Upsert(rl, RefKey(ev), [completed |-> ev.completed, total |-> ev.total])

(* the handler is called and waits for the first progress event *)
BeginFeed(who) ==
    /\ pc = "idle"
    /\ CanStart(who)
    /\ pc' = "feeding"
    /\ caller' = who
    /\ modelName' = ModelNameOf(who)
    /\ abortController' = "live"
    /\ signalAborted' = FALSE
    /\ startTime' = now
    /\ layers' = EmptyMap
    /\ digestProgress' = EmptyMap
    /\ pullProgress' = StartProgress(who, ModelNameOf(who))
    /\ isPulling' = (who # "onDownloadModel")
    /\ UNCHANGED << attempt, wire, now, lastProgressTime, thrown, attemptsOpened,
                    cleanupCalls, backoffWaited, lastReason, lastRecordAt,
                    errInStream, afterError, attemptLayers, lostRecords, lastCleanupOk,
                    resetPending, outcome, cancelAt, readDelays, aggVars, extVars >>

(* a second goes by while the handler waits for the next event *)
Tick ==
    /\ pc = "feeding"
    /\ now = startTime
    /\ now' = now + 1000
    /\ UNCHANGED << pc, attempt, wire, lastProgressTime, thrown, attemptsOpened,
                    cleanupCalls, backoffWaited, lastReason, lastRecordAt,
                    errInStream, afterError, attemptLayers, lostRecords, lastCleanupOk, cbVars,
                    uiVars, aggVars, extVars >>

(* one call of the progress callback *)
FeedEvent(ev) ==
    /\ pc = "feeding"
    /\ \E cb \in { ProgressCallback(caller, CbState, ev, now - startTime) } :
          /\ layers' = cb.layers
          /\ digestProgress' = cb.digestProgress
          /\ pullProgress' = cb.pullProgress
    /\ lastEv' = ev
    /\ monotone' = ( monotone /\ ( RefKey(ev) \in DOMAIN refLayers
                                     => ev.completed >= refLayers[RefKey(ev)].completed ) )
    /\ refLayers' = RefUpsert(refLayers, ev)
    /\ UNCHANGED << pc, attempt, wire, now, lastProgressTime, thrown, attemptsOpened,
                    cleanupCalls, backoffWaited, lastReason, lastRecordAt,
                    errInStream, afterError, attemptLayers, lostRecords, lastCleanupOk, uiVars,
                    extVars >>

NextAgg ==
    \/ \E who \in Callers : BeginFeed(who)
    \/ \E ev \in Events : FeedEvent(ev)
    \/ Tick

SpecAgg == InitLoaded /\ [][NextAgg]_vars

-----------------------------------------------------------------------------
(* Downloads that overlap.  Each handler is an async function: it runs to  *)
(* its await of pullModel, and its finally block runs when pullModel has   *)
(* returned or thrown.  A call of pullModel is in flight in between; the   *)
(* signal it is handed is not looked at by pullModel.                      *)

MaxDownloads == 2

(* a call of pullModel with the maps its progress callback closes over *)
InFlightCall(handler, modelId, controller) ==
    [handler |-> handler, modelId |-> modelId, controller |-> controller,
     layers |-> EmptyMap, digestProgress |-> EmptyMap]

(* what pullModel gives the callback for the records of a stream *)
StreamEvents == { CallbackArgs(RecPulling), CallbackArgs(RecSuccess) }

IsPullingOf(f) == IF f = "chat" THEN isPullingChat ELSE isPullingEmbedding

SetIsPulling(f, v) ==
    IF f = "chat"
    THEN isPullingChat' = v /\ UNCHANGED isPullingEmbedding
    ELSE isPullingEmbedding' = v /\ UNCHANGED isPullingChat

(* chatPullProgress or embeddingPullProgress of the cv-parser AppComponent *)
SetPullProgress(f, v) ==
    IF f = "chat"
    THEN chatPullProgress' = v /\ UNCHANGED embeddingPullProgress
    ELSE embeddingPullProgress' = v /\ UNCHANGED chatPullProgress

(* the user selects model m in control c.  cv-parser: the select is        *)
(* disabled while the control is pulling; onChatModelChange and            *)
(* onEmbeddingModelChange call checkOllamaModelStatus, which writes the    *)
(* field and gives the registry the model when that is safe.  frontend/web:*)
(* onChatModelChange and onEmbeddingModelChange give the registry the      *)
(* model, and the subscriber writes the field.                             *)
SelectModel(c, m) ==
    /\ m # selected[c]
    /\ c \in {"chat", "embedding"} => ~IsPullingOf(c)
    /\ IF c \in {"webChat", "webEmbedding"} \/ SafeToSet(m)
       THEN SetRegistry(WithModel(Registry, TypeOf(c), m))
       ELSE SetRegistry([Registry EXCEPT !.selected[c] = m])
    /\ UNCHANGED << delVars, pullModelVars, dlVars, engVars, rfVars, embVars,
                    provider, openAIKey, openAIMetadataCall >>

(* the Download button of control f of the cv-parser template is shown,    *)
(* and enabled                                                             *)
DownloadShown(f) ==
    /\ provider = "ollama"
    /\ ~IsPullingOf(f)
    /\ ~IsModelInstalled(selected[f], ListOf(f))
    /\ selected[f] # ""

(* the Download button of the chat control: downloadChatModel, then        *)
(* pullOllamaModel up to its await                                         *)
DownloadChatModel ==
    /\ DownloadShown("chat")
    /\ nextController < MaxDownloads
    /\ nextController' = nextController + 1
    /\ chatPullAbortController' = nextController + 1
    /\ isPullingChat' = TRUE
    /\ chatPullProgress' = StartProgress("pullOllamaModel", selected["chat"])
    /\ inFlight' = inFlight \cup {InFlightCall("downloadChatModel", selected["chat"],
                                               nextController + 1)}
    /\ UNCHANGED << webAbortController, embeddingPullAbortController,
                    isPullingEmbedding, abortedControllers, embeddingPullProgress,
                    webPullProgress, webResetTimers, pullModelVars, engVars, rfVars,
                    moreVars >>

(* the Download button of the embedding control *)
DownloadEmbeddingModel ==
    /\ DownloadShown("embedding")
    /\ nextController < MaxDownloads
    /\ nextController' = nextController + 1
    /\ embeddingPullAbortController' = nextController + 1
    /\ isPullingEmbedding' = TRUE
    /\ embeddingPullProgress' = StartProgress("pullOllamaModel", selected["embedding"])
    /\ inFlight' = inFlight \cup {InFlightCall("downloadEmbeddingModel",
                                               selected["embedding"], nextController + 1)}
    /\ UNCHANGED << webAbortController, chatPullAbortController, isPullingChat,
                    abortedControllers, chatPullProgress, webPullProgress,
                    webResetTimers, pullModelVars, engVars, rfVars, moreVars >>

(* frontend/web: the control c emits downloadModel with its selected       *)
(* model; onDownloadModel up to its await                                  *)
OnDownloadModel(c) ==
    /\ nextController < MaxDownloads
    /\ nextController' = nextController + 1
    /\ webAbortController' = nextController + 1
    /\ webPullProgress' = StartProgress("onDownloadModel", selected[c])
    /\ inFlight' = inFlight \cup {InFlightCall("onDownloadModel", selected[c],
                                               nextController + 1)}
    /\ UNCHANGED << chatPullAbortController, embeddingPullAbortController,
                    isPullingChat, isPullingEmbedding, abortedControllers,
                    chatPullProgress, embeddingPullProgress, webResetTimers,
                    pullModelVars, engVars, rfVars, moreVars >>

(* pullModel has decoded a record of the stream of call c and calls the    *)
(* progress callback of its handler, which writes the progress object;     *)
(* elapsed: whether a millisecond has gone by since the handler started    *)
PullProgressReported(c, ev, elapsed) ==
    /\ c \in inFlight
    /\ \E cb \in { ProgressCallback(c.handler,
                                   [layers |-> c.layers,
                                    digestProgress |-> c.digestProgress,
                                    pullProgress |->
                                       IF c.handler = "downloadChatModel"
                                       THEN chatPullProgress
                                       ELSE IF c.handler = "downloadEmbeddingModel"
                                            THEN embeddingPullProgress
                                            ELSE webPullProgress],
                                   ev, IF elapsed THEN 1 ELSE 0) } :
          /\ inFlight' = (inFlight \ {c})
                            \cup {[c EXCEPT !.layers = cb.layers,
                                            !.digestProgress = cb.digestProgress]}
          /\ chatPullProgress' =
                IF c.handler = "downloadChatModel" THEN cb.pullProgress
                ELSE chatPullProgress
          /\ embeddingPullProgress' =
                IF c.handler = "downloadEmbeddingModel" THEN cb.pullProgress
                ELSE embeddingPullProgress
          /\ webPullProgress' =
                IF c.handler = "onDownloadModel" THEN cb.pullProgress
                ELSE webPullProgress
    /\ UNCHANGED << nextController, webAbortController, chatPullAbortController,
                    embeddingPullAbortController, isPullingChat, isPullingEmbedding,
                    abortedControllers, webResetTimers, pullModelVars, engVars,
                    rfVars, moreVars >>

(* an attempt of call c that is not the last has failed: the catch block *)
(* of pullModel calls the progress callback with its retry text, deletes   *)
(* the partial download and waits.  The maps of the callback are kept.     *)
AttemptFailed(c, elapsed) == PullProgressReported(c, RetryEvent, elapsed)

(* pullModel returns (ok) or throws an Error: the rest of the handler and  *)
(* its finally.  After a return the handler calls refreshModels without    *)
(* awaiting it, and pullOllamaModel makes the model the active one of its  *)
(* type; the finally block of onDownloadModel starts the 2 s timer that    *)
(* resets the progress.                                                    *)
PullModelEnds(c, ok) ==
    /\ c \in inFlight
    /\ inFlight' = inFlight \ {c}
    /\ isPullingChat' = IF c.handler = "downloadChatModel" THEN FALSE ELSE isPullingChat
    /\ isPullingEmbedding' =
          IF c.handler = "downloadEmbeddingModel" THEN FALSE ELSE isPullingEmbedding
    /\ webAbortController' =
          IF c.handler = "onDownloadModel" THEN Null ELSE webAbortController
    /\ webResetTimers' =
          IF c.handler = "onDownloadModel" THEN webResetTimers + 1 ELSE webResetTimers
    /\ IF ok
       THEN \E reg \in { RefreshModels(Registry, provider, openAIKey) } :
               SetRegistry(IF c.handler = "downloadChatModel"
                           THEN WithChatModel(reg, c.modelId)
                           ELSE IF c.handler = "downloadEmbeddingModel"
                                THEN [WithEmbeddingModel(reg, c.modelId)
                                         EXCEPT !.selected["embedding"] = c.modelId]
                                ELSE reg)
       ELSE UNCHANGED regLists
    /\ UNCHANGED << nextController, chatPullAbortController,
                    embeddingPullAbortController, abortedControllers,
                    chatPullProgress, embeddingPullProgress, webPullProgress,
                    pullModelVars, engVars, rfVars, delVars, embVars, provider,
                    openAIKey, openAIMetadataCall >>

(* frontend/web: a 2 s timer of onDownloadModel fires *)
WebProgressReset ==
    /\ webResetTimers > 0
    /\ webResetTimers' = webResetTimers - 1
    /\ webPullProgress' = NoProgress
    /\ UNCHANGED << inFlight, nextController, webAbortController,
                    chatPullAbortController, embeddingPullAbortController,
                    isPullingChat, isPullingEmbedding, abortedControllers,
                    chatPullProgress, embeddingPullProgress, pullModelVars, engVars,
                    rfVars, moreVars >>

(* cancelChatPull: the Cancel button is shown while isPullingChat *)
CancelChatPull ==
    /\ provider = "ollama"
    /\ isPullingChat
    /\ IF chatPullAbortController # Null
       THEN /\ abortedControllers' = abortedControllers \cup {chatPullAbortController}
            /\ chatPullAbortController' = Null
       ELSE UNCHANGED << abortedControllers, chatPullAbortController >>
    /\ UNCHANGED << inFlight, nextController, webAbortController,
                    embeddingPullAbortController, isPullingChat, isPullingEmbedding,
                    progressVars, pullModelVars, engVars, rfVars, moreVars >>

(* cancelEmbeddingPull *)
CancelEmbeddingPull ==
    /\ provider = "ollama"
    /\ isPullingEmbedding
    /\ IF embeddingPullAbortController # Null
       THEN /\ abortedControllers' = abortedControllers \cup {embeddingPullAbortController}
            /\ embeddingPullAbortController' = Null
       ELSE UNCHANGED << abortedControllers, embeddingPullAbortController >>
    /\ UNCHANGED << inFlight, nextController, webAbortController,
                    chatPullAbortController, isPullingChat, isPullingEmbedding,
                    progressVars, pullModelVars, engVars, rfVars, moreVars >>

(* frontend/web: onCancelPull *)
OnCancelPull ==
    /\ IF webAbortController # Null
       THEN /\ abortedControllers' = abortedControllers \cup {webAbortController}
            /\ webAbortController' = Null
       ELSE UNCHANGED << abortedControllers, webAbortController >>
    /\ UNCHANGED << inFlight, nextController, chatPullAbortController,
                    embeddingPullAbortController, isPullingChat, isPullingEmbedding,
                    progressVars, pullModelVars, engVars, rfVars, moreVars >>

(* the handlers of the cv-parser AppComponent *)
NextDownloads ==
    \/ \E c \in {"chat", "embedding"} :
          \E m \in FirstIds(ListOf(c), MaxChoicesDownload) : SelectModel(c, m)
    \/ DownloadChatModel
    \/ DownloadEmbeddingModel
    \/ \E c \in inFlight, ev \in StreamEvents, elapsed \in BOOLEAN :
          PullProgressReported(c, ev, elapsed)
    \/ \E c \in inFlight, elapsed \in BOOLEAN : AttemptFailed(c, elapsed)
    \/ \E c \in inFlight, ok \in BOOLEAN : PullModelEnds(c, ok)
    \/ CancelChatPull
    \/ CancelEmbeddingPull
    \/ \E i \in DOMAIN refreshRuns, a \in ServerAnswers : RefreshModelsEnds(i, a)

(* the handlers of the frontend/web AppComponent *)
NextDownloadsWeb ==
    \/ \E c \in {"webChat", "webEmbedding"} : \E m \in FirstIds(ListOf(c), MaxChoicesWeb) : SelectModel(c, m)
    \/ \E c \in {"webChat", "webEmbedding"} : OnDownloadModel(c)
    \/ \E c \in inFlight, ev \in StreamEvents, elapsed \in BOOLEAN :
          PullProgressReported(c, ev, elapsed)
    \/ \E c \in inFlight, elapsed \in BOOLEAN : AttemptFailed(c, elapsed)
    \/ \E c \in inFlight, ok \in BOOLEAN : PullModelEnds(c, ok)
    \/ OnCancelPull
    \/ WebProgressReset
    \/ \E i \in DOMAIN refreshRuns, a \in ServerAnswers : RefreshModelsEnds(i, a)

SpecDownloads == InitOllama /\ [][NextDownloads]_vars

SpecDownloadsWeb == InitOllama /\ [][NextDownloadsWeb]_vars

-----------------------------------------------------------------------------
(* LocalExtractionService: initialize and extractData.  Each call is an    *)
(* async function; it is suspended at its awaits (reload, unload, the      *)
(* timers, CreateMLCEngine, the completion request) and every step below   *)
(* runs the code from one await to the next.                               *)

MaxCalls == 3

MaxEngines == 3

(* ms of the timer before CreateMLCEngine *)
SettleDelay == 500

(* ms of the timer before extractData initializes again *)
RetryDelay == 1000

(* the model an engine object has loaded, "none" when it has none *)
LoadedModel(e) == IF e = Null THEN "none" ELSE engines[e].model

(* what a call finds when it starts; priorThrew: the caller's last call    *)
(* was an initialize that threw                                            *)
Snapshot(s) ==
    [engine |-> engine, model |-> LoadedModel(engine),
     currentModelId |-> currentModelId, created |-> Len(engines),
     priorThrew |-> (calls[s].kind = "initialize" /\ calls[s].result = "threw")]

(* a creation that starts without waiting *)
StepBeforeCreateNone == "create"

(* the await that precedes CreateMLCEngine *)
StepBeforeCreate == "delay"

(* a catch block that keeps the model id *)
CurrentModelIdKept(m) == m

(* this.currentModelId = null of the catch block *)
CurrentModelIdAfterFailure(m) == "null"

(* a first line that leaves currentModelId alone *)
CurrentModelIdStale(old, m) == old

(* this.currentModelId = modelId *)
CurrentModelIdAtEntry(old, m) == m

CallFree(s) == calls[s].pc = "done"

(* extractData( text, n ) from its first line to its first await or its end *)
ExtractDataEntry(rec, eng, n) ==
    IF provider \in {"ollama", "openai"}
    THEN [rec EXCEPT !.pc = "done", !.result = "delegated", !.retryCount = n]
    ELSE IF eng = Null
         THEN [rec EXCEPT !.pc = "done", !.result = "threw", !.retryCount = n]
         ELSE [rec EXCEPT !.pc = "completion", !.target = eng, !.retryCount = n,
                          !.log = Append(@, "completion")]

(* initialize has returned (ok) or thrown: a top-level call ends, a call   *)
(* made by extractData goes on with extractData( text, retryCount + 1 )    *)
InitializeEnds(rec, ok, eng) ==
    IF rec.kind = "extractData"
    THEN IF ok THEN ExtractDataEntry(rec, eng, rec.retryCount + 1)
               ELSE [rec EXCEPT !.pc = "done", !.result = "threw"]
    ELSE [rec EXCEPT !.pc = "done", !.result = IF ok THEN "returned" ELSE "threw"]

(* initialize( m ) from its first line to its first await or its return *)
EnterInitialize(s, m, rec) ==
    IF provider # "browser"
    THEN /\ calls' = [calls EXCEPT ![s] = InitializeEnds([rec EXCEPT !.modelId = m], TRUE, engine)]
         /\ UNCHANGED << isLoading, currentModelId >>
    ELSE /\ currentModelId' = CurrentModelIdAtEntry(currentModelId, m)
         /\ isLoading' = TRUE
         /\ IF engine # Null
            THEN calls' = [calls EXCEPT ![s] =
                    [rec EXCEPT !.modelId = m, !.browser = TRUE, !.pc = "reload",
                                !.target = engine, !.log = Append(@, "reload")]]
            ELSE calls' = [calls EXCEPT ![s] =
                    [rec EXCEPT !.modelId = m, !.browser = TRUE,
                                !.pc = StepBeforeCreate,
                                !.log = IF StepBeforeCreate = "delay"
                                        THEN Append(@, "delay")
                                        ELSE Append(@, "create")]]

(* a caller calls initialize( m ) *)
Initialize(s, m) ==
    /\ s \in callers
    /\ CallFree(s)
    /\ callsStarted < MaxCalls
    /\ callsStarted' = callsStarted + 1
    /\ EnterInitialize(s, m, [NoCall EXCEPT !.kind = "initialize", !.result = "pending",
                                            !.start = Snapshot(s)])
    /\ UNCHANGED << engine, provider, engines, callers, pullModelVars, dlVars, rfVars, moreVars >>

(* engine.reload( modelId ) resolves or rejects *)
ReloadResolves(s, ok) ==
    /\ calls[s].pc = "reload"
    /\ ok => calls[s].modelId # "null"
    /\ IF ok
       THEN /\ engines' = [engines EXCEPT ![calls[s].target].model = calls[s].modelId]
            /\ isLoading' = FALSE
            /\ calls' = [calls EXCEPT ![s] = InitializeEnds(calls[s], TRUE, engine)]
            /\ UNCHANGED engine
       ELSE \E left \in {engines[calls[s].target].model, "none"} :
              IF engine # Null
              THEN /\ engines' = [engines EXCEPT ![calls[s].target].model = left,
                                                 ![engine].unloadCalled = TRUE]
                   /\ calls' = [calls EXCEPT ![s].pc = "unload", ![s].target = engine,
                                             ![s].log = Append(@, "unload")]
                   /\ UNCHANGED << engine, isLoading >>
              ELSE /\ engines' = [engines EXCEPT ![calls[s].target].model = left]
                   /\ engine' = Null
                   /\ calls' = [calls EXCEPT ![s].pc = StepBeforeCreate,
                                             ![s].log = IF StepBeforeCreate = "delay"
                                                        THEN Append(@, "delay")
                                                        ELSE Append(@, "create")]
                   /\ UNCHANGED isLoading
    /\ UNCHANGED << currentModelId, provider, callers, callsStarted, pullModelVars,
                    dlVars, rfVars, moreVars >>

(* an unload whose rejection reaches the caller *)
UnloadFailurePropagates(ok) == ok

(* try { await this.engine.unload(); } catch ( e ) { }: a rejection of     *)
(* unload is caught and dropped                                            *)
UnloadFailureSwallowed(ok) == TRUE

(* engine.unload() resolves or rejects; the code goes on alike *)
UnloadResolves(s, ok) ==
    /\ calls[s].pc \in {"unload", "unloadAfterError"}
    /\ engines' = IF ok THEN [engines EXCEPT ![calls[s].target].live = FALSE,
                                             ![calls[s].target].model = "none"]
                        ELSE engines
    /\ engine' = Null
    /\ IF calls[s].pc = "unload" /\ UnloadFailureSwallowed(ok)
       THEN /\ calls' = [calls EXCEPT ![s].pc = StepBeforeCreate,
                                      ![s].log = IF StepBeforeCreate = "delay"
                                                 THEN @ \o << "unloadEnd", "delay" >>
                                                 ELSE @ \o << "unloadEnd", "create" >>]
            /\ UNCHANGED << currentModelId, isLoading >>
       ELSE /\ currentModelId' = CurrentModelIdAfterFailure(currentModelId)
            /\ isLoading' = FALSE
            /\ calls' = [calls EXCEPT ![s] =
                  InitializeEnds([calls[s] EXCEPT !.log = Append(@, "unloadEnd")],
                                 FALSE, Null)]
    /\ UNCHANGED << provider, callers, callsStarted, pullModelVars, dlVars, rfVars, moreVars >>

(* the 500 ms timer fires: CreateMLCEngine( modelId ) is called *)
SettleDelayDone(s) ==
    /\ calls[s].pc = "delay"
    /\ calls' = [calls EXCEPT ![s].pc = "create",
                              ![s].waited = @ + SettleDelay,
                              ![s].log = @ \o << "delayEnd", "create" >>]
    /\ UNCHANGED << engine, currentModelId, isLoading, provider, engines, callers,
                    callsStarted, pullModelVars, dlVars, rfVars, moreVars >>

(* CreateMLCEngine resolves with a new engine, or rejects *)
CreateResolves(s, ok) ==
    /\ calls[s].pc = "create"
    /\ ok => (calls[s].modelId # "null" /\ Len(engines) < MaxEngines)
    /\ IF ok
       THEN /\ engines' = Append(engines, [model |-> calls[s].modelId, live |-> TRUE,
                                           unloadCalled |-> FALSE])
            /\ engine' = Len(engines) + 1
            /\ isLoading' = FALSE
            /\ calls' = [calls EXCEPT ![s] = InitializeEnds(calls[s], TRUE, Len(engines) + 1)]
            /\ UNCHANGED currentModelId
       ELSE IF engine # Null
            THEN /\ engines' = [engines EXCEPT ![engine].unloadCalled = TRUE]
                 /\ calls' = [calls EXCEPT ![s].pc = "unloadAfterError",
                                           ![s].target = engine,
                                           ![s].log = Append(@, "unload")]
                 /\ UNCHANGED << engine, currentModelId, isLoading >>
            ELSE /\ currentModelId' = CurrentModelIdAfterFailure(currentModelId)
                 /\ isLoading' = FALSE
                 /\ calls' = [calls EXCEPT ![s] = InitializeEnds(calls[s], FALSE, Null)]
                 /\ UNCHANGED << engine, engines >>
    /\ UNCHANGED << provider, callers, callsStarted, pullModelVars, dlVars, rfVars, moreVars >>

(* a caller calls extractData( text ) *)
ExtractData(s) ==
    /\ s \in callers
    /\ CallFree(s)
    /\ callsStarted < MaxCalls
    /\ callsStarted' = callsStarted + 1
    /\ calls' = [calls EXCEPT ![s] =
          ExtractDataEntry([NoCall EXCEPT !.kind = "extractData", !.result = "pending",
                                          !.browser = (provider \notin {"ollama", "openai"}),
                                          !.start = Snapshot(s)], engine, 0)]
    /\ UNCHANGED << engine, currentModelId, isLoading, provider, engines, callers,
                    pullModelVars, dlVars, rfVars, moreVars >>

(* a catch block that retries a second time *)
MayRetryTwice(n, cur) == n < 2 /\ ~Falsy(cur)

(* retryCount < 1 && this.currentModelId *)
MayRetry(n, cur) == n < 1 /\ ~Falsy(cur)

(* the completion request resolves with JSON that parses (ok), or it       *)
(* rejects or its content does not parse                                   *)
CompletionResolves(s, ok) ==
    /\ calls[s].pc = "completion"
    /\ IF ok
       THEN /\ calls' = [calls EXCEPT ![s].pc = "done", ![s].result = "returned"]
            /\ UNCHANGED engine
       ELSE IF MayRetry(calls[s].retryCount, currentModelId)
            THEN /\ engine' = Null
                 /\ calls' = [calls EXCEPT ![s].pc = "retryDelay"]
            ELSE /\ calls' = [calls EXCEPT ![s].pc = "done", ![s].result = "threw"]
                 /\ UNCHANGED engine
    /\ UNCHANGED << currentModelId, isLoading, provider, engines, callers,
                    callsStarted, pullModelVars, dlVars, rfVars, moreVars >>

(* the 1000 ms timer fires: await this.initialize( this.currentModelId ) *)
RetryDelayDone(s) ==
    /\ calls[s].pc = "retryDelay"
    /\ EnterInitialize(s, currentModelId,
                       [calls[s] EXCEPT !.waited = @ + RetryDelay,
                                        !.log = Append(@, "initialize")])
    /\ UNCHANGED << engine, provider, engines, callers, callsStarted, pullModelVars,
                    dlVars, rfVars, moreVars >>

NextEngine ==
    \/ \E p \in Providers : SetProvider(p)
    \/ \E s \in callers, m \in ModelIds : Initialize(s, m)
    \/ \E s \in callers, ok \in BOOLEAN : ReloadResolves(s, ok)
    \/ \E s \in callers, ok \in BOOLEAN : UnloadResolves(s, ok)
    \/ \E s \in callers : SettleDelayDone(s)
    \/ \E s \in callers, ok \in BOOLEAN : CreateResolves(s, ok)
    \/ \E s \in callers : ExtractData(s)
    \/ \E s \in callers, ok \in BOOLEAN : CompletionResolves(s, ok)
    \/ \E s \in callers : RetryDelayDone(s)

(* two callers, whose calls may overlap *)
InitOverlapping ==
    /\ InitProgram
    /\ Constructed("", "")
    /\ readDelays = FastNetwork
    /\ callers = {"c1", "c2"}

(* calls issued one at a time *)
SpecEngine == Init /\ [][NextEngine]_vars

SpecEngineOverlap == InitOverlapping /\ [][NextEngine]_vars

-----------------------------------------------------------------------------
(* The backend server: POST /api/model-metadata/refresh and the job cron   *)
(* runs at 3 AM.  The handler is an async function suspended at            *)
(* await fetchAndUpdateModelMetadata(); several requests can be in that    *)
(* await at once, and so can the job.                                      *)

REFRESH_COOLDOWN_MS == 5 * 60 * 1000

(* how many refreshes are followed *)
MaxRefreshes == 3

(* how far the server clock is followed, in ms after its start *)
MaxServerTime == 600000

(* the clock moves on by a minute or by the length of the cooldown *)
ClockSteps == {60000, REFRESH_COOLDOWN_MS}

(* one call of fetchAndUpdateModelMetadata: the time it was begun at, and  *)
(* whether the endpoint or the scheduled job made it                       *)
RefreshStart(t, who) == [at |-> t, by |-> who]

(* lastRefreshTime && ( now - lastRefreshTime ) < REFRESH_COOLDOWN_MS *)
InCooldown(last, t) == last # Null /\ (t - last) < REFRESH_COOLDOWN_MS

(* a request arrives: the handler up to its 429 answer or to its await *)
RefreshRequest(r) ==
    /\ requests[r].pc = "idle"
    /\ Len(refreshStarts) < MaxRefreshes
    /\ IF InCooldown(lastRefreshTime, serverNow)
       THEN /\ requests' = [requests EXCEPT ![r] =
                   [pc |-> "idle", now |-> 0, status |-> 429]]
            /\ UNCHANGED refreshStarts
       ELSE /\ requests' = [requests EXCEPT ![r] =
                   [pc |-> "fetching", now |-> serverNow, status |-> 0]]
            /\ refreshStarts' = Append(refreshStarts, RefreshStart(serverNow, "endpoint"))
    /\ UNCHANGED << lastRefreshTime, serverNow, cronJob, pullModelVars, dlVars, engVars,
                    moreVars >>

(* fetchAndUpdateModelMetadata resolves (ok) or rejects *)
MetadataFetched(r, ok) ==
    /\ requests[r].pc = "fetching"
    /\ IF ok
       THEN /\ lastRefreshTime' = requests[r].now
            /\ requests' = [requests EXCEPT ![r] = [pc |-> "idle", now |-> 0, status |-> 200]]
       ELSE /\ requests' = [requests EXCEPT ![r] = [pc |-> "idle", now |-> 0, status |-> 500]]
            /\ UNCHANGED lastRefreshTime
    /\ UNCHANGED << serverNow, refreshStarts, cronJob, pullModelVars, dlVars, engVars,
                    moreVars >>

(* it is 3 AM: the scheduled job calls fetchAndUpdateModelMetadata, with   *)
(* no look at lastRefreshTime                                              *)
ScheduledRefresh ==
    /\ cronJob = "waiting"
    /\ Len(refreshStarts) < MaxRefreshes
    /\ cronJob' = "fetching"
    /\ refreshStarts' = Append(refreshStarts, RefreshStart(serverNow, "cron"))
    /\ UNCHANGED << lastRefreshTime, serverNow, requests, pullModelVars, dlVars, engVars,
                    moreVars >>

(* the fetch of the job resolves or rejects: the job logs the one or the   *)
(* other and leaves lastRefreshTime as it is                               *)
ScheduledRefreshEnds ==
    /\ cronJob = "fetching"
    /\ cronJob' = "done"
    /\ UNCHANGED << lastRefreshTime, serverNow, requests, refreshStarts, pullModelVars,
                    dlVars, engVars, moreVars >>

(* time goes by on the server *)
ServerTimePasses(d) ==
    /\ serverNow + d <= ServerStart + MaxServerTime
    /\ serverNow' = serverNow + d
    /\ UNCHANGED << lastRefreshTime, requests, refreshStarts, cronJob, pullModelVars,
                    dlVars, engVars, moreVars >>

NextRefresh ==
    \/ \E r \in 1..MaxRequests : RefreshRequest(r)
    \/ \E r \in 1..MaxRequests, ok \in BOOLEAN : MetadataFetched(r, ok)
    \/ ScheduledRefresh
    \/ ScheduledRefreshEnds
    \/ \E d \in ClockSteps : ServerTimePasses(d)

SpecRefresh == Init /\ [][NextRefresh]_vars

-----------------------------------------------------------------------------
(* EmbeddingService: initModel and getEmbedding, called one at a time.     *)
(* The provider is the one of the model registry; pipe holds the model id  *)
(* the pipeline was loaded for.                                            *)

MaxEmbeddingCalls == 4

(* initModel( m ) from its first line to its first await or its return *)
InitModelEntry(rec, m) ==
    IF provider = "ollama"
    THEN /\ embeddingModelId' = m
         /\ embeddingCall' = [rec EXCEPT !.pc = IF rec.kind = "getEmbedding"
                                                THEN "embed" ELSE "done",
                                         !.modelId = m,
                                         !.result = IF rec.kind = "getEmbedding"
                                                    THEN "pending" ELSE "returned"]
         /\ UNCHANGED << pipe, embeddingIsLoading >>
    ELSE IF embeddingModelId = m /\ pipe # "null"
         THEN /\ embeddingCall' = [rec EXCEPT !.pc = "done", !.modelId = m,
                                              !.browser = TRUE, !.early = TRUE,
                                              !.result = "returned"]
              /\ UNCHANGED << pipe, embeddingModelId, embeddingIsLoading >>
         ELSE /\ embeddingIsLoading' = TRUE
              /\ embeddingCall' = [rec EXCEPT !.pc = "pipeline", !.modelId = m,
                                              !.browser = TRUE]
              /\ UNCHANGED << pipe, embeddingModelId >>

(* a caller calls initModel( m ) *)
InitModel(m) ==
    /\ embeddingCall.pc = "done"
    /\ embeddingCalls < MaxEmbeddingCalls
    /\ embeddingCalls' = embeddingCalls + 1
    /\ InitModelEntry([NoEmbeddingCall EXCEPT !.kind = "initModel", !.result = "pending"], m)
    /\ UNCHANGED << pullModelVars, dlVars, engVars, rfVars, delVars, regVars >>

(* pipeline( 'feature-extraction', modelId ) resolves or rejects *)
PipelineResolves(ok) ==
    /\ embeddingCall.pc = "pipeline"
    /\ embeddingIsLoading' = FALSE
    /\ IF ok
       THEN /\ pipe' = embeddingCall.modelId
            /\ embeddingModelId' = embeddingCall.modelId
            /\ embeddingCall' = IF embeddingCall.kind = "getEmbedding"
                                THEN [embeddingCall EXCEPT !.pc = "embed"]
                                ELSE [embeddingCall EXCEPT !.pc = "done",
                                                           !.result = "returned"]
       ELSE /\ embeddingCall' = [embeddingCall EXCEPT !.pc = "done", !.result = "threw"]
            /\ UNCHANGED << pipe, embeddingModelId >>
    /\ UNCHANGED << embeddingCalls, pullModelVars, dlVars, engVars, rfVars, delVars,
                    regVars >>

(* a caller calls getEmbedding( text ); the model id is the one            *)
(* modelRegistry.getCurrentEmbeddingModelId() returns                      *)
GetEmbedding ==
    /\ embeddingCall.pc = "done"
    /\ embeddingCalls < MaxEmbeddingCalls
    /\ embeddingCalls' = embeddingCalls + 1
    /\ IF provider = "ollama"
       THEN /\ embeddingModelId' = IF Falsy(embeddingModelId)
                                   THEN selectedEmbeddingModel
                                   ELSE embeddingModelId
            /\ embeddingCall' = [NoEmbeddingCall EXCEPT !.kind = "getEmbedding",
                                                        !.pc = "embed",
                                                        !.modelId = selectedEmbeddingModel,
                                                        !.result = "pending"]
            /\ UNCHANGED << pipe, embeddingIsLoading >>
       ELSE IF pipe = "null"
            THEN InitModelEntry([NoEmbeddingCall EXCEPT !.kind = "getEmbedding",
                                                        !.result = "pending"],
                                selectedEmbeddingModel)
            ELSE /\ embeddingCall' = [NoEmbeddingCall EXCEPT !.kind = "getEmbedding",
                                                             !.pc = "embed",
                                                             !.modelId = pipe,
                                                             !.browser = TRUE,
                                                             !.result = "pending"]
                 /\ UNCHANGED << pipe, embeddingModelId, embeddingIsLoading >>
    /\ UNCHANGED << pullModelVars, dlVars, engVars, rfVars, delVars, regVars >>

(* ollamaService.getEmbeddings or this.pipe( text ) resolves or rejects *)
EmbeddingResolves(ok) ==
    /\ embeddingCall.pc = "embed"
    /\ embeddingCall' = [embeddingCall EXCEPT !.pc = "done",
                                              !.result = IF ok THEN "returned" ELSE "threw"]
    /\ UNCHANGED << pipe, embeddingModelId, embeddingIsLoading, embeddingCalls,
                    pullModelVars, dlVars, engVars, rfVars, delVars, regVars >>

NextEmbedding ==
    \/ \E p \in Providers : SetProvider(p)
    \/ \E m \in ModelIds : InitModel(m)
    \/ \E ok \in BOOLEAN : PipelineResolves(ok)
    \/ GetEmbedding
    \/ \E m \in ModelIds : SetEmbeddingModel(m)
    \/ \E ok \in BOOLEAN : EmbeddingResolves(ok)

SpecEmbedding == Init /\ [][NextEmbedding]_vars

-----------------------------------------------------------------------------
(* ModelRegistryService with its callers and the services it awaits *)

NextRegistry ==
    \/ \E p \in Providers : SetProvider(p)
    \/ \E key \in OpenAIKeys : SetOpenAIKey(key)
    \/ \E m \in FirstIds(chatModels, MaxChoices) : SetChatModel(m)
    \/ \E m \in FirstIds(embeddingModels, MaxChoices) : SetEmbeddingModel(m)
    \/ RefreshModelsCalled
    \/ \E i \in DOMAIN refreshRuns :
          \E a \in AnswersFor(refreshRuns[i].provider) : RefreshModelsEnds(i, a)
    \/ RefreshOpenAIMetadata
    \/ \E ok \in BOOLEAN : MetadataAnswered(ok)
    \/ MetadataRefreshReturns

SpecRegistry == InitSaved /\ [][NextRegistry]_vars

-----------------------------------------------------------------------------
(* The Delete buttons.  cv-parser AppComponent: deleteChatModel and        *)
(* deleteEmbeddingModel, each with its own flag and timer, deleting the    *)
(* model that is selected; the buttons are shown while no pull or delete   *)
(* is running and the selected model is installed.  frontend/web           *)
(* AppComponent: onDeleteModel( { id, type } ), one flag and one timer for *)
(* the events of both controls.                                            *)

MaxClicks == 3

MaxUiTime == 4000

UiStep == 1000

CONFIRM_TIMEOUT == 3000

DELETE_DELAY == 1000

(* the two-click rule: what the click now made on flag f has to be *)
Wanted(f) ==
    IF expect[f] = Null \/ uiNow - expect[f] > CONFIRM_TIMEOUT THEN "first"
    ELSE IF uiNow - expect[f] < CONFIRM_TIMEOUT THEN "second"
    ELSE "either"

Clicked(f, issued) ==
    /\ clicksMade' = clicksMade + 1
    /\ lastClick' = [flag |-> f, issued |-> issued, wanted |-> Wanted(f)]
    /\ expect' = [expect EXCEPT ![f] =
                     IF Wanted(f) = "first" THEN uiNow
                     ELSE IF Wanted(f) = "second" THEN Null
                     ELSE IF issued THEN Null ELSE uiNow]

(* if ( !this.confirmingXDelete ) *)
IsFirstClick(f) == ~confirmingDelete[f]

(* the first click: the flag is set and the 3 s timer is (re)started *)
Arm(f, c) ==
    /\ confirmingDelete' = [confirmingDelete EXCEPT ![f] = TRUE]
    /\ deleteTimeout' = [deleteTimeout EXCEPT ![f] = uiNow + CONFIRM_TIMEOUT]
    /\ armedFor' = [armedFor EXCEPT ![f] = [control |-> c, model |-> selected[c]]]

DeleteRequest(c, model) ==
    [control |-> c, model |-> model,
     armedControl |-> armedFor[FlagOf(c)].control,
     armedModel |-> armedFor[FlagOf(c)].model]

(* the Delete button of control f of the cv-parser template is shown; a    *)
(* model that is found in the list has an id that is not empty             *)
DeleteShown(f) ==
    /\ provider = "ollama"
    /\ ~IsPullingOf(f)
    /\ IsModelInstalled(selected[f], ListOf(f))

(* cv-parser: a click on the Delete button of control f; deleteChatModel   *)
(* and deleteEmbeddingModel up to their first await                        *)
DeleteSelectedModel(f) ==
    /\ clicksMade < MaxClicks
    /\ DeleteShown(f)
    /\ selected[f] # ""
    /\ IF IsFirstClick(f)
       THEN /\ Arm(f, f)
            /\ Clicked(f, FALSE)
            /\ UNCHANGED << deleting, isPullingChat, isPullingEmbedding,
                            chatPullProgress, embeddingPullProgress >>
       ELSE /\ confirmingDelete' = [confirmingDelete EXCEPT ![f] = FALSE]
            /\ deleteTimeout' = [deleteTimeout EXCEPT ![f] = Null]
            /\ SetIsPulling(f, TRUE)
            /\ SetPullProgress(f, [status |-> "Deleting...", completed |-> 0,
                                   total |-> 0, percent |-> 100])
            /\ deleting' = [deleting EXCEPT ![f] =
                               [pc |-> "delay", due |-> uiNow + DELETE_DELAY,
                                model |-> "none", run |-> 0]]
            /\ Clicked(f, TRUE)
            /\ UNCHANGED armedFor
    /\ UNCHANGED << uiNow, webDeletes, lastDelete, inFlight,
                    nextController, webAbortController, chatPullAbortController,
                    embeddingPullAbortController, abortedControllers, webPullProgress,
                    webResetTimers, pullModelVars, engVars, rfVars, embVars, regVars >>

DeleteChatModel == DeleteSelectedModel("chat")

DeleteEmbeddingModel == DeleteSelectedModel("embedding")

(* cv-parser: the 1 s timer fires; ollamaService.deleteModel is called     *)
(* with the model that is selected                                         *)
DeleteDelayDone(f) ==
    /\ deleting[f].pc = "delay"
    /\ uiNow >= deleting[f].due
    /\ deleting' = [deleting EXCEPT ![f] = [pc |-> "request", due |-> Null,
                                            model |-> selected[f], run |-> 0]]
    /\ lastDelete' = DeleteRequest(f, selected[f])
    /\ UNCHANGED << uiNow, confirmingDelete, deleteTimeout,
                    webDeletes, clicksMade, expect, armedFor, lastClick,
                    pullModelVars, dlVars, engVars, rfVars, embVars, regVars >>

(* cv-parser: deleteModel has returned, true or false; refreshModels is    *)
(* called and awaited                                                      *)
DeleteModelReturns(f) ==
    /\ deleting[f].pc = "request"
    /\ SetRegistry(RefreshModels(Registry, provider, openAIKey))
    /\ deleting' = [deleting EXCEPT ![f] = [pc |-> "refreshModels", due |-> Null,
                                            model |-> deleting[f].model,
                                            run |-> Len(refreshRuns) + 1]]
    /\ UNCHANGED << uiNow, confirmingDelete, deleteTimeout, webDeletes,
                    clicksMade, expect, armedFor, lastClick, lastDelete, dlVars,
                    pullModelVars, engVars, rfVars, embVars, provider, openAIKey,
                    openAIMetadataCall >>

(* cv-parser: the refreshModels run the handler awaited is over: finally *)
DeleteModelRefreshed(f) ==
    /\ deleting[f].pc = "refreshModels"
    /\ refreshRuns[deleting[f].run].done
    /\ SetIsPulling(f, FALSE)
    /\ SetPullProgress(f, NoProgress)
    /\ deleting' = [deleting EXCEPT ![f] = NoDeletion]
    /\ UNCHANGED << uiNow, confirmingDelete, deleteTimeout,
                    webDeletes, clicksMade, expect, armedFor, lastClick, lastDelete,
                    inFlight, nextController, webAbortController,
                    chatPullAbortController, embeddingPullAbortController,
                    abortedControllers, webPullProgress, webResetTimers,
                    pullModelVars, engVars, rfVars, embVars, regVars >>

(* frontend/web: the control c emits deleteModel with its selected model;  *)
(* onDeleteModel up to its await                                           *)
OnDeleteModel(c) ==
    /\ clicksMade < MaxClicks
    /\ IF IsFirstClick("web")
       THEN /\ Arm("web", c)
            /\ Clicked("web", FALSE)
            /\ UNCHANGED << webDeletes, lastDelete >>
       ELSE /\ webDeletes' = Append(webDeletes, selected[c])
            /\ lastDelete' = DeleteRequest(c, selected[c])
            /\ Clicked("web", TRUE)
            /\ UNCHANGED << confirmingDelete, deleteTimeout, armedFor >>
    /\ UNCHANGED << uiNow, deleting, pullModelVars, dlVars,
                    engVars, rfVars, embVars, regVars >>

(* frontend/web: deleteModel call i has returned; refreshModels is called, *)
(* not awaited, and the flag is cleared                                    *)
OnDeleteModelReturns(i) ==
    /\ i \in 1..Len(webDeletes)
    /\ webDeletes' = SubSeq(webDeletes, 1, i - 1) \o SubSeq(webDeletes, i + 1, Len(webDeletes))
    /\ SetRegistry(RefreshModels(Registry, provider, openAIKey))
    /\ confirmingDelete' = [confirmingDelete EXCEPT !["web"] = FALSE]
    /\ UNCHANGED << uiNow, deleteTimeout, deleting, clicksMade, expect,
                    armedFor, lastClick, lastDelete, pullModelVars, dlVars, engVars,
                    rfVars, embVars, provider, openAIKey, openAIMetadataCall >>

(* the 3 s timer of flag f fires *)
DeleteTimeoutFires(f) ==
    /\ deleteTimeout[f] # Null
    /\ uiNow >= deleteTimeout[f]
    /\ confirmingDelete' = [confirmingDelete EXCEPT ![f] = FALSE]
    /\ deleteTimeout' = [deleteTimeout EXCEPT ![f] = Null]
    /\ UNCHANGED << uiNow, deleting, webDeletes, clicksMade,
                    expect, armedFor, lastClick, lastDelete, pullModelVars, dlVars,
                    engVars, rfVars, embVars, regVars >>

(* time goes by; a timer that is due fires before more time goes by *)
UiTimePasses ==
    /\ uiNow < UiStart + MaxUiTime
    /\ \A f \in Flags : deleteTimeout[f] # Null => deleteTimeout[f] > uiNow
    /\ \A f \in DOMAIN deleting : deleting[f].pc = "delay" => deleting[f].due > uiNow
    /\ uiNow' = uiNow + UiStep
    /\ UNCHANGED << confirmingDelete, deleteTimeout, deleting,
                    webDeletes, clicksMade, expect, armedFor, lastClick, lastDelete,
                    pullModelVars, dlVars, engVars, rfVars, embVars, regVars >>

(* the Delete buttons of the cv-parser AppComponent *)
NextDelete ==
    \/ \E c \in {"chat", "embedding"} : \E m \in FirstIds(ListOf(c), MaxChoices) : SelectModel(c, m)
    \/ DeleteChatModel
    \/ DeleteEmbeddingModel
    \/ \E f \in {"chat", "embedding"} : DeleteDelayDone(f)
    \/ \E f \in {"chat", "embedding"} : DeleteModelReturns(f)
    \/ \E i \in DOMAIN refreshRuns, a \in ServerAnswers : RefreshModelsEnds(i, a)
    \/ \E f \in {"chat", "embedding"} : DeleteModelRefreshed(f)
    \/ \E f \in {"chat", "embedding"} : DeleteTimeoutFires(f)
    \/ UiTimePasses

(* the Delete buttons of the frontend/web AppComponent *)
NextDeleteWeb ==
    \/ \E c \in {"webChat", "webEmbedding"} : \E m \in FirstIds(ListOf(c), MaxChoicesWeb) : SelectModel(c, m)
    \/ \E c \in {"webChat", "webEmbedding"} : OnDeleteModel(c)
    \/ \E i \in 1..MaxClicks : OnDeleteModelReturns(i)
    \/ \E i \in DOMAIN refreshRuns, a \in ServerAnswers : RefreshModelsEnds(i, a)
    \/ DeleteTimeoutFires("web")
    \/ UiTimePasses

SpecDelete == InitOllama /\ [][NextDelete]_vars

SpecDeleteWeb == InitOllama /\ [][NextDeleteWeb]_vars




-----------------------------------------------------------------------------
(* Properties of pullModel (SpecPull, SpecStall) *)

(* C1: one call of pullModel issues at most 3 POST /pull requests, and the *)
(* attempt counter never exceeds 3.                                        *)
C1_AtMostThreeAttempts == attemptsOpened <= 3 /\ attempt <= 3

C1_Witness == attemptsOpened = 3 /\ attempt = 3 /\ pc = "read"

(* C2: when attempts 1 and 2 have failed and the stream of attempt 3 ends  *)
(* without an error, pullModel returns success, deleteModel has been       *)
(* called exactly twice and at least 2 + 4 = 6 seconds of backoff have     *)
(* gone by on the clock.                                                   *)
C2_TwoFailuresThenSuccess ==
    (pc = "done" /\ attempt = 3 /\ thrown = NoError)
        => /\ outcome = "Succeeded"
           /\ cleanupCalls = 2
           /\ backoffWaited >= 6000
           /\ now - startTime >= 6000

C2_Witness ==
    pc = "done" /\ attempt = 3 /\ outcome = "Succeeded" /\ cleanupCalls = 2

(* C3: a record with an error field ends the attempt: while the stream is  *)
(* still being read no error record has been decoded, no record after an   *)
(* error record reaches the progress callback, and pullModel does not      *)
(* report success for a stream that carried an error record.               *)
C3_ErrorRecordEndsAttempt ==
    /\ (pc = "read" => ~errInStream)
    /\ afterError = 0
    /\ ~(pc = "done" /\ outcome = "Succeeded" /\ errInStream)

(* C4: once the user has cancelled while the stream was being read, no     *)
(* further POST /pull and no cleanup delete is issued, and the handler     *)
(* ends with the outcome Cancelled.                                        *)
C4_CancelEndsAcquisition ==
    cancelAt.pc = "read"
        => /\ attemptsOpened = cancelAt.attempts
           /\ cleanupCalls = cancelAt.cleanups
           /\ (pc = "done" => outcome = "Cancelled")

(* C5: pullModel throws only when the third attempt has failed; a failure  *)
(* of attempt 1 or 2 throws nothing and reports nothing to the handler;    *)
(* the error thrown carries the reason of the failure just caught.         *)
C5_ThrowsOnlyAfterThirdFailure ==
    /\ (thrown # NoError
          => /\ attempt = 3
             /\ pc = "done"
             /\ outcome = "Failed"
             /\ thrown.name = "Error"
             /\ thrown.message[2] = lastReason)
    /\ (pc \in {"cleanup", "backoff"}
          => attempt < 3 /\ thrown = NoError /\ outcome = "none")

C5_Witness ==
    thrown # NoError /\ lastReason = "Download stalled" /\ attemptsOpened = 3

(* C6: every failed attempt is followed by a cleanup delete before the     *)
(* next attempt starts or pullModel ends; when the retries are used up     *)
(* there have been 3 cleanup deletes, one per failed attempt.              *)
C6_CleanupAfterEveryFailure ==
    /\ (pc \in {"fetch", "read"} => cleanupCalls = attempt - 1)
    /\ (thrown # NoError => cleanupCalls = 3)

(* C7: a stream is never open for longer than the stall timeout since it   *)
(* was opened or since the last record was decoded from it.                *)
C7_StallWithoutRecord ==
    pc = "read" => now - lastRecordAt <= STALL_TIMEOUT

(* C11: in pullOllamaModel the progress of a retry attempt is aggregated   *)
(* from an empty layer map: while an attempt is being fetched or read, the *)
(* layers map holds what the events of this attempt alone have put there,  *)
(* and once such an event has been stored the reported byte totals are the *)
(* sums over these layers only.                                            *)
C11_FreshLayersPerAttempt ==
    (caller = "pullOllamaModel" /\ pc \in {"fetch", "read"})
        => /\ layers = attemptLayers
           /\ attemptLayers # EmptyMap
                 => /\ pullProgress.completed = GlobalCompleted(attemptLayers)
                    /\ pullProgress.total = GlobalTotal(attemptLayers)

(* C19: every record of the stream whose last byte has been read has been  *)
(* given to JSON.parse as one whole line, however the stream was cut into  *)
(* chunks: a record split across two chunks is not lost.                   *)
C19_SplitRecordDecoded == lostRecords = 0

-----------------------------------------------------------------------------
(* Properties of overlapping downloads (SpecDownloads, SpecDownloadsWeb) *)

(* the handlers of one application *)
SameApp(c, d) == (c.handler = "onDownloadModel") = (d.handler = "onDownloadModel")

(* C12: no two pullModel calls for the same modelId are in flight at the   *)
(* same time in one application.                                           *)
C12_OneDownloadPerModel ==
    \A c, d \in inFlight :
        (SameApp(c, d) /\ c.modelId = d.modelId) => c = d

(* C28: every download that onDownloadModel started and that is still in   *)
(* flight is within reach of onCancelPull: the abortController field is    *)
(* the controller of that download, unless onCancelPull has already        *)
(* aborted it.                                                             *)
C28_CancelReachesEveryDownload ==
    \A c \in inFlight :
        c.handler = "onDownloadModel"
            => (c.controller \in abortedControllers \/ webAbortController = c.controller)

-----------------------------------------------------------------------------
(* Properties of LocalExtractionService (SpecEngine, SpecEngineOverlap) *)

IsPrefix(p, q) == Len(p) <= Len(q) /\ p = SubSeq(q, 1, Len(p))

(* what a fresh creation does *)
CreationSteps == << "delay", "delayEnd", "create" >>

(* what an activation does whose reload has thrown *)
FallbackSteps == << "reload", "unload", "unloadEnd" >> \o CreationSteps

(* a call of initialize under the browser provider *)
IsActivation(c) == c.kind = "initialize" /\ c.browser

(* C13: at most one engine exists that CreateMLCEngine has returned and on *)
(* which unload() has not been called: no reference to an engine is        *)
(* dropped or overwritten before that engine is unloaded.                  *)
C13_AtMostOneLiveEngine ==
    Cardinality({ e \in 1..Len(engines) : ~engines[e].unloadCalled }) <= 1

(* C14: when initialize(modelId) has returned under the browser provider,  *)
(* calls being made one at a time, this.engine is an engine that has not   *)
(* been unloaded and has modelId loaded, and currentModelId is modelId.    *)
C14_ReturnedMeansLoaded ==
    \A s \in callers :
        (IsActivation(calls[s]) /\ calls[s].result = "returned")
            => /\ engine # Null
               /\ engines[engine].live
               /\ engines[engine].model = calls[s].modelId
               /\ currentModelId = calls[s].modelId

C14_Witness ==
    \E s \in callers :
        /\ IsActivation(calls[s]) /\ calls[s].result = "returned"
        /\ calls[s].start.model = "m1" /\ calls[s].modelId = "m2"
        /\ calls[s].log = FallbackSteps
        /\ engines[engine].model = "m2"

(* C15: initialize(modelId) called while the engine has that same modelId  *)
(* loaded does nothing: no reload, no unload, no creation, and engine and  *)
(* currentModelId stay as they were.                                       *)
C15_SameModelIsNoOp ==
    \A s \in callers :
        ( /\ IsActivation(calls[s])
          /\ calls[s].start.engine # Null
          /\ calls[s].start.model = calls[s].modelId
          /\ calls[s].start.currentModelId = calls[s].modelId )
            => /\ calls[s].log = << >>
               /\ calls[s].result = "returned"
               /\ engine = calls[s].start.engine
               /\ currentModelId = calls[s].modelId

(* C16: an activation that finds another model loaded and whose reload     *)
(* throws does, in this order: the reload, one unload that it awaits, one  *)
(* 500 ms timer that it awaits, one CreateMLCEngine; nothing else.         *)
C16_FallbackOrder ==
    \A s \in callers :
        ( /\ IsActivation(calls[s])
          /\ calls[s].start.engine # Null
          /\ calls[s].start.model # calls[s].modelId
          /\ Len(calls[s].log) >= 2 )
            => /\ IsPrefix(calls[s].log, FallbackSteps)
               /\ calls[s].pc \in {"create", "done"}
                    => calls[s].log = FallbackSteps /\ calls[s].waited = 500
               /\ calls[s].pc \in {"unload", "delay"} => calls[s].waited = 0

C16_Witness ==
    \E s \in callers :
        /\ IsActivation(calls[s]) /\ calls[s].pc = "done"
        /\ calls[s].start.model = "m1" /\ calls[s].modelId = "m2"
        /\ calls[s].log = FallbackSteps /\ calls[s].waited = 500

(* C17: when initialize has thrown (engine creation failed) the service is *)
(* unloaded: engine = null, currentModelId = null, isLoading = false; the  *)
(* next initialize does a fresh creation without a reload and returns      *)
(* exactly when that creation succeeds, with the requested model loaded.   *)
C17_CreationFailureLeavesUnloaded ==
    \A s \in callers :
        /\ (IsActivation(calls[s]) /\ calls[s].result = "threw")
              => engine = Null /\ currentModelId = "null" /\ ~isLoading
        /\ (IsActivation(calls[s]) /\ calls[s].start.priorThrew)
              => /\ IsPrefix(calls[s].log, CreationSteps)
                 /\ calls[s].pc = "done"
                      => /\ calls[s].log = CreationSteps
                         /\ (calls[s].result = "returned")
                               = (Len(engines) = calls[s].start.created + 1)
                         /\ calls[s].result = "returned"
                               => engines[engine].model = calls[s].modelId

C17_Witness ==
    \E s \in callers :
        /\ IsActivation(calls[s]) /\ calls[s].start.priorThrew
        /\ calls[s].result = "returned"
        /\ engine # Null /\ currentModelId = calls[s].modelId

Occurs(q, x) == \E i \in 1..Len(q) : q[i] = x

Count(q, x) == Cardinality({ i \in 1..Len(q) : q[i] = x })

(* C23: with calls made one at a time under the browser provider, where    *)
(* any reload and any unload may fail, an initialize call throws only when *)
(* its own engine creation was attempted and failed; a call whose creation *)
(* succeeds returns with the requested model loaded, whatever the reload   *)
(* and the unload before it did.                                           *)
C23_FallbackAlwaysWorks ==
    \A s \in callers :
        (IsActivation(calls[s]) /\ calls[s].pc = "done")
            => /\ calls[s].result = "threw"
                    => /\ Occurs(calls[s].log, "create")
                       /\ Len(engines) = calls[s].start.created
               /\ (Occurs(calls[s].log, "create")
                      /\ Len(engines) = calls[s].start.created + 1)
                    => /\ calls[s].result = "returned"
                       /\ engine = Len(engines)
                       /\ engines[engine].model = calls[s].modelId
                       /\ currentModelId = calls[s].modelId

(* the reload threw, the unload threw too (the old engine is still live),  *)
(* the creation succeeded and the call returned                            *)
C23_Witness ==
    \E s \in callers :
        /\ IsActivation(calls[s]) /\ calls[s].result = "returned"
        /\ calls[s].log = FallbackSteps
        /\ calls[s].start.engine # Null
        /\ engines[calls[s].start.engine].unloadCalled
        /\ engines[calls[s].start.engine].live
        /\ engine = calls[s].start.created + 1

IsExtraction(c) == c.kind = "extractData" /\ c.browser

(* C25: one extractData call under the browser provider issues at most 2   *)
(* completion requests and at most 1 re-initialize; it re-initializes only *)
(* after a first completion failed with currentModelId set; once the       *)
(* second try has started nothing but its completion request follows, so   *)
(* its failure, like a failure of the re-initialize, ends the call with    *)
(* the error.                                                              *)
C25_RetryAtMostOnce ==
    \A s \in callers :
        IsExtraction(calls[s])
            => /\ Count(calls[s].log, "completion") <= 2
               /\ Count(calls[s].log, "initialize") <= 1
               /\ calls[s].retryCount <= 1
               /\ Occurs(calls[s].log, "initialize")
                    => /\ calls[s].start.currentModelId # "null"
                       /\ calls[s].log[1] = "completion"
                       /\ calls[s].log[2] = "initialize"
               /\ calls[s].pc = "retryDelay"
                    => calls[s].retryCount = 0 /\ calls[s].log = << "completion" >>
               /\ calls[s].retryCount = 1
                    => /\ calls[s].pc \in {"completion", "done"}
                       /\ Count(calls[s].log, "initialize") = 1
                       /\ calls[s].log[Len(calls[s].log)] = "completion"
                              \/ calls[s].result \in {"threw", "delegated"}
               /\ (calls[s].pc = "done" /\ calls[s].result = "threw"
                      /\ Occurs(calls[s].log, "initialize"))
                    => \/ Count(calls[s].log, "completion") = 2
                       \/ calls[s].log[Len(calls[s].log)] \in {"create", "unloadEnd"}

(* both tries failed: two completion requests, one re-initialize, thrown *)
C25_Witness ==
    \E s \in callers :
        /\ IsExtraction(calls[s]) /\ calls[s].pc = "done"
        /\ calls[s].result = "threw"
        /\ Count(calls[s].log, "completion") = 2
        /\ Count(calls[s].log, "initialize") = 1

(* C18: the steps of two initialize calls never interleave: at most one    *)
(* call is suspended inside initialize, so at most one engine creation is  *)
(* in progress.                                                            *)
C18_InitializeSerialized ==
    Cardinality({ s \in callers :
        calls[s].pc \in {"reload", "unload", "delay", "create", "unloadAfterError"} }) <= 1

-----------------------------------------------------------------------------
(* Properties of the refresh endpoint (SpecRefresh) *)

(* C20: any two metadata refreshes begun by the endpoint lie at least the  *)
(* 5 minute cooldown apart, and a request that arrives less than 5 minutes *)
(* after a refresh was begun is answered 429.  The refreshes of the        *)
(* scheduled job are not the endpoint's and are left out.                  *)
C20_RefreshCooldown ==
    \A i \in 1..Len(refreshStarts) :
        \A j \in 1..Len(refreshStarts) :
            (i < j /\ refreshStarts[i].by = "endpoint" /\ refreshStarts[j].by = "endpoint")
                => refreshStarts[j].at - refreshStarts[i].at >= 300000

-----------------------------------------------------------------------------
(* Properties of the progress callbacks (SpecAgg) *)

Layer(c, t) == [completed |-> c, total |-> t]

(* round(100 * n / d) of the reference formula: the exact quotient,        *)
(* rounded to the nearest integer, halves upwards                          *)
HalfUp(n, d) ==
    CHOOSE p \in 0..400 : 2 * d * p <= 200 * n + d /\ 200 * n + d < 2 * d * (p + 1)

(* percent of the reference aggregator *)
RefPercent(rl) ==
    LET c == SumOver([k \in DOMAIN rl |-> rl[k].completed], DOMAIN rl)
        t == SumOver([k \in DOMAIN rl |-> rl[k].total], DOMAIN rl)
    IN IF t = 0 THEN 0 ELSE Min(100, HalfUp(c, t))

(* C8: as long as every layer's completed value has been non-decreasing,   *)
(* the percent of the progress object does not decrease from one event to  *)
(* the next.                                                               *)
C8_PercentNeverDecreases ==
    [][ (pc = "feeding" /\ monotone')
          => pullProgress'.percent >= pullProgress.percent ]_vars

(* C9: after every event the percent is that of the reference aggregator:  *)
(* 0 when the totals of the layers seen so far sum to 0, else              *)
(* min(100, round(100 * sum(completed) / sum(total))) over those layers,   *)
(* so that it always lies in 0..100.                                       *)
C9_PercentIsReference ==
    (pc = "feeding" /\ lastEv # NoEvent)
        => pullProgress.percent = RefPercent(refLayers)

(* C10: an event with status "verifying" or "writing manifest" and no byte *)
(* fields sets the percent to 100, whatever was accumulated before.        *)
C10_PostTransferForces100 ==
    ( /\ pc = "feeding"
      /\ lastEv.status \in {"verifying", "writing manifest"}
      /\ lastEv.completed = 0 /\ lastEv.total = 0 /\ lastEv.digest = "" )
        => pullProgress.percent = 100


(***************************************************************************)
(* pullModel: the catch block between two attempts                         *)
(***************************************************************************)

(* the sum of the backoff waits before attempt a: 2^1 + ... + 2^(a-1) s *)
BackoffBefore(a) == SumOver([k \in 1 .. (a - 1) |-> BackoffDelay(k)], 1 .. (a - 1))

CleanupBackoffStep ==
    /\ (pc \in {"fetch", "read"} /\ pc' \notin {"fetch", "read", "done"})
         => /\ pc' = "cleanup"
            /\ attempt \in {1, 2}
            /\ cleanupCalls' = cleanupCalls + 1
    /\ cleanupCalls' # cleanupCalls => pc \in {"fetch", "read"} /\ pc' = "cleanup"
    /\ (pc = "cleanup" /\ pc' # pc)
         => /\ pc' = "backoff"
            /\ now' = now
            /\ attempt' = attempt
            /\ attemptsOpened' = attemptsOpened
    /\ (pc = "backoff" /\ pc' # pc)
         => /\ pc' = "fetch"
            /\ now' = now + Pow(2, attempt) * 1000
            /\ attempt' = attempt + 1
            /\ attemptsOpened' = attemptsOpened + 1
    /\ attemptsOpened' # attemptsOpened => pc \in {"idle", "backoff"}

(* C22: after failed attempt k (k = 1, 2) exactly one cleanup delete is   *)
(* issued, then the backoff of 2^k seconds is waited, and only then       *)
(* attempt k+1 starts; the cleanup returning a failure changes nothing:   *)
(* the backoff and the next attempt still take place                      *)
C22_CleanupThenBackoff ==
    /\ [](pc \in {"fetch", "read", "cleanup", "backoff"}
            => /\ attemptsOpened = attempt
               /\ backoffWaited = BackoffBefore(attempt)
               /\ cleanupCalls = IF pc \in {"fetch", "read"}
                                 THEN attempt - 1 ELSE attempt)
    /\ [][CleanupBackoffStep]_vars

(* attempt 3 is under way after two cleanups, the latest of which failed *)
C22_Witness ==
    /\ pc = "fetch"
    /\ attempt = 3
    /\ cleanupCalls = 2
    /\ backoffWaited = 6000
    /\ ~lastCleanupOk

(* C26: every pullModel call ends, by returning or by throwing, once each  *)
(* awaited fetch, stream read, stall timer, cleanup delete and backoff     *)
(* wait settles                                                            *)
C26_PullModelEnds ==
    (pc \in {"fetch", "read", "cleanup", "backoff"}) ~> (pc = "done")

(* a call that went through three attempts and two cleanups has ended *)
C26_Witness ==
    /\ pc = "done"
    /\ attemptsOpened = 3
    /\ cleanupCalls = 2
    /\ outcome = "Failed"

-----------------------------------------------------------------------------
(* Progress events without a layer id (SpecAgg) *)

(* C24: a progress event without a digest is stored under the key          *)
(* "unknown" with its completed and total, also when its total is 0, and   *)
(* so enters the sums like a named layer: right after such an event the    *)
(* handler's map holds "unknown" with the event's values.                  *)
C24_NoDigestIsUnknownLayer ==
    (pc = "feeding" /\ lastEv # NoEvent /\ lastEv.digest = "")
        => IF caller = "onDownloadModel"
           THEN /\ "unknown" \in DOMAIN digestProgress
                /\ digestProgress["unknown"] = lastEv.completed
           ELSE /\ "unknown" \in DOMAIN layers
                /\ layers["unknown"] = [completed |-> lastEv.completed,
                                        total |-> lastEv.total]

-----------------------------------------------------------------------------
(* Properties of EmbeddingService (SpecEmbedding) *)

(* C27: when initModel( m ) has returned under the browser provider, the   *)
(* pipeline the service holds was loaded for m; in particular the early    *)
(* return is taken only with a pipeline that was loaded for m.             *)
C27_PipelineMatchesModelId ==
    ( /\ embeddingCall.kind = "initModel"
      /\ embeddingCall.browser
      /\ embeddingCall.result = "returned" )
        => pipe = embeddingCall.modelId

-----------------------------------------------------------------------------
(* Properties of ModelRegistryService (SpecRegistry) *)

(* the pairs of lists refreshModels publishes for provider p: those it    *)
(* builds from what the services return, and for 'openai' also the pair it *)
(* publishes when there is no key                                          *)
ListsOf(p) ==
    { [chat |-> ModelsOf(p, a), embedding |-> EmbeddingModelsOf(p, a)] : a \in Answers }
    \cup (IF p = "openai"
          THEN { [chat |-> <<>>, embedding |-> browserEmbeddingModels] }
          ELSE {})

(* C30: once every refreshModels run that was started has finished, the    *)
(* published chat and embedding lists are lists of the selected provider,  *)
(* and the selected chat model is in the published chat list when that     *)
(* list is not empty.                                                      *)
C30_ListsOfSelectedProvider ==
    (\A i \in 1..Len(refreshRuns) : refreshRuns[i].done)
        => /\ [chat |-> chatModels, embedding |-> embeddingModels] \in ListsOf(provider)
           /\ Len(chatModels) > 0 => selectedChatModel \in Ids(chatModels)

-----------------------------------------------------------------------------
(* Properties of the Delete buttons (SpecDelete) *)

(* C21: a delete takes two clicks.  A click that is a first click (no      *)
(* first click is open, or the open one is more than 3 s old) issues no    *)
(* delete request; a click made less than 3 s after an open first click    *)
(* issues the delete; a confirming state lasts no longer than its 3 s.     *)
C21_TwoClicksToDelete ==
    /\ lastClick.wanted = "first" => ~lastClick.issued
    /\ lastClick.wanted = "second" => lastClick.issued
    /\ \A f \in Flags :
          confirmingDelete[f] => (deleteTimeout[f] # Null /\ deleteTimeout[f] >= uiNow)

(* C29: a delete request is sent for the model for which the first click   *)
(* asked the confirmation, whatever was selected, and whichever control    *)
(* was clicked, in between.                                                *)
C29_DeletesTheConfirmedModel ==
    lastDelete # NoDelete => lastDelete.model = lastDelete.armedModel

====
